---- MODULE Spec2Model ----
(***************************************************************************)
(* The SQL query guard of mcp-panther: the validators of                   *)
(* utils/sql_validation.py, the reserved-word rewriter and the             *)
(* execute_data_lake_query tool of tools/data_lake.py.                     *)
(*                                                                         *)
(* Text.  A Python str is a sequence of atoms.  An atom is either a word   *)
(* (a run of \w characters, e.g. "WHERE", "p_event_time") or one non-word  *)
(* character (" ", ".", "=", "(", ...).  Two adjacent word atoms denote    *)
(* one longer identifier, so the regular expressions' \b holds between two *)
(* atoms exactly when one of them is a word and the other is not.          *)
(***************************************************************************)
EXTENDS Integers, Sequences, FiniteSets, TLC

VARIABLES
    sql,                  \* the query text handed to the operation
    require_time_filter,  \* argument of validate_sql_comprehensive
    read_only,            \* "absent", "True" or "False": the keyword argument read_only
    database_name,        \* the database name argument (None when not given)
    table_name,           \* the table or column name handed to the name normalizer
    op,                   \* the operation that ran ("none" before any)
    tokenizer,            \* what sqlparse did with the text during the operation
    result,               \* what the operation returned (or raised)
    pc,                   \* execute_data_lake_query: position in the coroutine
    exec_sql,             \* execute_data_lake_query: its local sql after rewriting
    api_calls,            \* number of session.execute calls made to the remote API
    api_sql,              \* the sql of the last session.execute call
    PANTHER_DATASTORE_TYPE, \* the environment setting of the dialect (None when unset)
    unit,                 \* get_dateadd_function: the argument unit
    amount,               \* get_dateadd_function: the argument amount
    base_expr,            \* get_dateadd_function: the base expression
    annotations,          \* PermissionBuilder: the dictionary self._annotations
    calls,                \* PermissionBuilder: the calls made on the builder, in order
    invocations,          \* concurrent callers: the arguments each caller passes
    frames,               \* concurrent callers: the locals of each invocation
    set_order             \* the iteration order of Python sets in this process

vars == <<sql, require_time_filter, read_only, database_name, table_name, op,
          tokenizer, result, pc, exec_sql, api_calls, api_sql,
          PANTHER_DATASTORE_TYPE, unit, amount, base_expr, annotations, calls,
          invocations, frames, set_order>>

-----------------------------------------------------------------------------
(* Bounds of the model. *)

\* longest query, in atoms, of the facade's inputs
MaxLen == 3
\* length in characters of the long identifier Pad and of the long blank SpacePad
PadLen == 9999
\* longest input, in atoms, of validate_sql_basic called alone
MaxBasicLen == 3
\* longest database name, in atoms
MaxDbLen == 4
\* longest query, in atoms, of validate_sql_time_filter called alone
MaxTimeLen == 5
\* longest query, in atoms, of _validate_fully_qualified_tables called alone
MaxTablesLen == 5
\* deepest nesting of subqueries in the queries given to execute_data_lake_query
MaxNest == 1
\* longest name, in characters, given to the name normalizer
MaxNameLen == 3

-----------------------------------------------------------------------------
(* Text primitives. *)

\* Python's None where a str (or a message) is expected
None == <<"None">>

\* an identifier of PadLen characters
Pad == "pad"

\* a run of PadLen blanks
SpacePad == "spacepad"

SpaceAtoms == {" ", "\n", "\t", SpacePad}

\* the backquote character (a TLA+ string cannot hold it)
BackTick == "backtick"

PunctAtoms == {".", "=", ">", "<", "(", ")", ";", ",", "'", "\"", BackTick, "*"}

IsSpace(a) == a \in SpaceAtoms

\* \w: every atom that is not a single non-word character
IsWord(a) == a \notin SpaceAtoms /\ a \notin PunctAtoms

\* str.lower() on one atom
LowerAtom(a) ==
    CASE a = "WHERE" -> "where"
      [] a = "AND" -> "and"
      [] a = "And" -> "and"
      [] a = "SELECT" -> "select"
      [] a = "FROM" -> "from"
      [] a = "JOIN" -> "join"
      [] a = "BETWEEN" -> "between"
      [] a = "P_Event_Time" -> "p_event_time"
      [] a = "P_OCCURS_SINCE" -> "p_occurs_since"
      [] a = "DROP" -> "drop"
      [] a = "Drop" -> "drop"
      [] a = "DELETE" -> "delete"
      [] a = "UPDATE" -> "update"
      [] a = "FALSE" -> "false"
      [] a = "CASE" -> "case"
      [] a = "WHEN" -> "when"
      [] a = "END" -> "end"
      [] a = "ACCOUNT" -> "account"
      [] a = "CURRENT_USER" -> "current_user"
      [] a = "ORDER" -> "order"
      [] a = "PANTHER_LOGS" -> "panther_logs"
      [] a = "Panther_Views" -> "panther_views"
      [] a = "PUBLIC" -> "public"
      [] a = "Public" -> "public"
      [] a = "ON" -> "on"
      [] a = "TABLE" -> "table"
      [] a = "TRUE" -> "true"
      [] a = "THEN" -> "then"
      [] a = "ELSE" -> "else"
      [] a = "Account" -> "account"
      [] a = "RED" -> "red"
      [] a = "Red" -> "red"
      [] a = "SHIFT" -> "shift"
      [] a = "Shift" -> "shift"
      [] a = "SNOW" -> "snow"
      [] a = "Snow" -> "snow"
      [] a = "FLAKE" -> "flake"
      [] OTHER -> a

\* str.upper() on one atom
UpperAtom(a) ==
    LET l == LowerAtom(a)
    IN
    CASE l = "where" -> "WHERE"
      [] l = "and" -> "AND"
      [] l = "select" -> "SELECT"
      [] l = "from" -> "FROM"
      [] l = "join" -> "JOIN"
      [] l = "between" -> "BETWEEN"
      [] l = "p_event_time" -> "P_EVENT_TIME"
      [] l = "p_occurs_since" -> "P_OCCURS_SINCE"
      [] l = "drop" -> "DROP"
      [] l = "delete" -> "DELETE"
      [] l = "update" -> "UPDATE"
      [] l = "delete_flag" -> "DELETE_FLAG"
      [] l = "false" -> "FALSE"
      [] l = "case" -> "CASE"
      [] l = "when" -> "WHEN"
      [] l = "end" -> "END"
      [] l = "account" -> "ACCOUNT"
      [] l = "current_user" -> "CURRENT_USER"
      [] l = "order" -> "ORDER"
      [] l = "panther_logs" -> "PANTHER_LOGS"
      [] l = "panther_views" -> "PANTHER_VIEWS"
      [] l = "public" -> "PUBLIC"
      [] l = "x" -> "X"
      [] l = "t" -> "T"
      [] l = "db" -> "DB"
      [] l = "on" -> "ON"
      [] l = "table" -> "TABLE"
      [] l = "true" -> "TRUE"
      [] l = "then" -> "THEN"
      [] l = "else" -> "ELSE"
      [] l = "valid_" -> "VALID_"
      [] l = "_id" -> "_ID"
      [] l = "count" -> "COUNT"
      [] l = "distinct" -> "DISTINCT"
      [] l = "red" -> "RED"
      [] l = "shift" -> "SHIFT"
      [] l = "snow" -> "SNOW"
      [] l = "flake" -> "FLAKE"
      [] OTHER -> a

\* str.lower() / str.upper()
Lower(s) == [i \in 1..Len(s) |-> LowerAtom(s[i])]

Upper(s) == [i \in 1..Len(s) |-> UpperAtom(s[i])]

\* len() of one atom, in characters
AtomLen(a) ==
    IF a = Pad \/ a = SpacePad THEN PadLen ELSE IF a = BackTick THEN 1 ELSE Len(a)

\* len(s), in characters
RECURSIVE CharLen(_)
CharLen(s) == IF s = <<>> THEN 0 ELSE AtomLen(Head(s)) + CharLen(Tail(s))

\* str.strip(): the text without its leading and trailing whitespace
Strip(s) ==
    LET keep == {i \in 1..Len(s) : ~IsSpace(s[i])}
    IN  IF keep = {} THEN <<>>
        ELSE LET first == CHOOSE i \in keep : \A j \in keep : i <= j
                 last  == CHOOSE i \in keep : \A j \in keep : j <= i
             IN  SubSeq(s, first, last)

\* Python truthiness of an optional str: None and "" are falsy
Truthy(s) == s # None /\ s # <<>>

\* the test 'not s or not s.strip()'
Blank(s) == ~Truthy(s) \/ Strip(s) = <<>>

\* \b before position i of s
BoundaryBefore(s, i) ==
    IF i = 1 THEN IsWord(s[1]) ELSE IsWord(s[i - 1]) # IsWord(s[i])

\* \b after position i of s
BoundaryAfter(s, i) ==
    IF i = Len(s) THEN IsWord(s[i]) ELSE IsWord(s[i]) # IsWord(s[i + 1])

\* the index of the first atom after position i that is not whitespace
\* (Len(s) + 1 when there is none): where \s* followed by a literal lands
RECURSIVE SkipSpace(_, _)
SkipSpace(s, i) ==
    IF i + 1 > Len(s) THEN Len(s) + 1
    ELSE IF IsSpace(s[i + 1]) THEN SkipSpace(s, i + 1)
    ELSE i + 1

\* every finite text over an alphabet, up to n atoms
SeqsUpTo(A, n) == UNION {[1..k -> A] : k \in 0..n}

-----------------------------------------------------------------------------
(* utils/sql_validation.py *)

\* the 10KB limit of validate_sql_basic
MaxQueryLen == 10000

\* what sqlparse.parse can do with a text: return statements, return
\* nothing, or raise
ParseOutcomes == {"ok", "empty", "raise"}

EmptyMsg == <<"SQL query cannot be empty">>

TooLongMsg == <<"Query too long. Maximum 10,000 characters allowed">>

InvalidSqlMsg == <<"Invalid SQL query">>

ParseFailedMsg == <<"Failed to parse SQL query">>

\* (the source puts p_event_time between backquotes)
TimeFilterMsg ==
    <<"Query must include a time filter: either p_event_time condition or Panther macro">>

DbEmptyMsg == <<"Database name cannot be empty">>

DbInvalidMsg(name) ==
    <<"Invalid database name '">> \o name
        \o <<"'. Must be a valid Panther database (e.g., 'panther_logs.public')">>

Passed == [valid |-> TRUE, error |-> None]

Failed(msg) == [valid |-> FALSE, error |-> msg]

\* validate_sql_basic reporting an oversized query without a message
validate_sql_basic_NoMessage(s, parse) ==
    IF Blank(s) THEN Failed(EmptyMsg)
    ELSE IF CharLen(s) > MaxQueryLen THEN Failed(None)
    ELSE IF parse = "raise" THEN Failed(ParseFailedMsg)
    ELSE IF parse = "empty" THEN Failed(InvalidSqlMsg)
    ELSE Passed

\* validate_sql_basic with the limit off by one
validate_sql_basic_OffByOne(s, parse) ==
    IF Blank(s) THEN Failed(EmptyMsg)
    ELSE IF CharLen(s) >= MaxQueryLen THEN Failed(TooLongMsg)
    ELSE IF parse = "raise" THEN Failed(ParseFailedMsg)
    ELSE IF parse = "empty" THEN Failed(InvalidSqlMsg)
    ELSE Passed

validate_sql_basic(s, parse) ==
    IF Blank(s) THEN Failed(EmptyMsg)
    ELSE IF CharLen(s) > MaxQueryLen THEN Failed(TooLongMsg)
    ELSE IF parse = "raise" THEN Failed(ParseFailedMsg)
    ELSE IF parse = "empty" THEN Failed(InvalidSqlMsg)
    ELSE Passed

\* the Panther time macros
TimeMacros ==
    {"p_occurs_since", "p_occurs_between", "p_occurs_around",
     "p_occurs_after", "p_occurs_before"}

\* '"p_occurs_..." in sql_lower': a substring test, so the macro name counts
\* wherever it stands, also inside a longer identifier
HasMacro(s) == \E i \in 1..Len(s) : LowerAtom(s[i]) \in TimeMacros

\* the alternatives of (>=|<=|=|>|<|between), by their first atom
IsOperatorStart(a) == a \in {"=", ">", "<", "between"}

\* re.search of
\*   \b(where|and)\s+.*?(?:[\w.]+\.)?p_event_time\s*(>=|<=|=|>|<|between)
\* on a lower-cased text: i is the keyword, i + 1 the first of \s+, j the
\* atom that ends in p_event_time, and the operator follows \s*
WherePatternSearch(s) ==
    \E i \in 1..Len(s) :
        /\ s[i] \in {"where", "and"}
        /\ BoundaryBefore(s, i)
        /\ i + 1 <= Len(s)
        /\ IsSpace(s[i + 1])
        /\ \E j \in (i + 2)..Len(s) :
            /\ s[j] = "p_event_time"
            /\ SkipSpace(s, j) <= Len(s)
            /\ IsOperatorStart(s[SkipSpace(s, j)])

\* validate_sql_time_filter searching the text as written, not lower-cased
validate_sql_time_filter_CaseSensitive(s) ==
    IF Blank(s) THEN Failed(EmptyMsg)
    ELSE IF HasMacro(s) \/ WherePatternSearch(s) THEN Passed
    ELSE Failed(TimeFilterMsg)

validate_sql_time_filter(s) ==
    IF Blank(s) THEN Failed(EmptyMsg)
    ELSE IF HasMacro(s) \/ WherePatternSearch(Lower(s)) THEN Passed
    ELSE Failed(TimeFilterMsg)

\* valid_patterns, each ^<database>\.public$
valid_patterns ==
    << <<"panther_logs", ".", "public">>,
       <<"panther_views", ".", "public">>,
       <<"panther_signals", ".", "public">>,
       <<"panther_rule_matches", ".", "public">>,
       <<"panther_rule_errors", ".", "public">>,
       <<"panther_monitor", ".", "public">>,
       <<"panther_cloudsecurity", ".", "public">> >>

\* the pattern without its $
MatchAnchored_NoEnd(literal, s) ==
    Len(s) >= Len(literal) /\ SubSeq(s, 1, Len(literal)) = literal

\* re.match(^literal$, s): the literal from the start of s, and $ at the end
\* of s or before one final line feed
MatchAnchored(literal, s) == s = literal \/ s = literal \o <<"\n">>

validate_panther_database_name(name) ==
    IF Blank(name) THEN Failed(DbEmptyMsg)
    ELSE IF \E k \in 1..Len(valid_patterns) :
                MatchAnchored(valid_patterns[k], Strip(Lower(name)))
         THEN Passed
    ELSE Failed(DbInvalidMsg(name))

\* SNOWFLAKE_RESERVED_WORDS of utils/sql_validation.py
SNOWFLAKE_RESERVED_WORDS ==
    {"SELECT", "FROM", "WHERE", "JOIN", "LEFT", "RIGHT", "INNER", "OUTER",
     "ON", "AS", "ORDER", "GROUP", "BY", "HAVING", "UNION", "ALL", "DISTINCT",
     "INSERT", "UPDATE", "DELETE", "CREATE", "ALTER", "DROP", "TABLE", "VIEW",
     "INDEX", "COLUMN", "PRIMARY", "KEY", "FOREIGN", "UNIQUE", "NOT", "NULL",
     "DEFAULT", "CHECK", "CONSTRAINT", "REFERENCES", "CASCADE", "RESTRICT",
     "SET", "VALUES", "INTO", "CASE", "WHEN", "THEN", "ELSE", "END", "IF",
     "EXISTS", "LIKE", "BETWEEN", "IN", "IS", "AND", "OR", "WITH"}

\* sqlparse.parse(sql)[0]: the first statement, which ends with the first
\* ';' and the blanks that follow it on its line
RECURSIVE StatementEnd(_, _)
StatementEnd(s, i) ==
    IF i > Len(s) THEN Len(s)
    ELSE IF s[i] = ";"
         THEN LET n == SkipSpace(s, i)
              IN  IF \E k \in (i + 1)..(n - 1) : s[k] = "\n"
                  THEN (CHOOSE k \in (i + 1)..(n - 1) :
                            s[k] = "\n" /\ \A m \in (i + 1)..(k - 1) : s[m] # "\n") - 1
                  ELSE n - 1
    ELSE StatementEnd(s, i + 1)

\* the position of the quote that closes the quote at i (0 when none does)
ClosingQuote(s, i) ==
    IF \E k \in (i + 1)..Len(s) : s[k] = s[i]
    THEN CHOOSE k \in (i + 1)..Len(s) :
             s[k] = s[i] /\ \A m \in (i + 1)..(k - 1) : s[m] # s[i]
    ELSE 0

\* the loop over parsed.flatten(): a Literal.String.Single token whose
\* content is a reserved word comes out between double quotes, every other
\* token as it is
RECURSIVE WrapTokens(_, _)
WrapTokens(s, i) ==
    IF i > Len(s) THEN <<>>
    ELSE IF s[i] \in {"'", "\"", BackTick} /\ ClosingQuote(s, i) # 0
         THEN LET c == ClosingQuote(s, i)
                  value == SubSeq(s, i + 1, c - 1)
              IN  (IF s[i] = "'" /\ Len(value) = 1
                      /\ UpperAtom(value[1]) \in SNOWFLAKE_RESERVED_WORDS
                   THEN <<"\"">> \o value \o <<"\"">>
                   ELSE SubSeq(s, i, c))
                  \o WrapTokens(s, c + 1)
    ELSE <<s[i]>> \o WrapTokens(s, i + 1)

\* the except clause returning an empty text instead of the argument
wrap_reserved_words_FailClosed(s, parse) ==
    IF parse = "raise" \/ parse = "empty" \/ s = <<>> THEN <<>>
    ELSE WrapTokens(SubSeq(s, 1, StatementEnd(s, 1)), 1)

wrap_reserved_words(s, parse) ==
    IF parse = "raise" \/ parse = "empty" \/ s = <<>> THEN s
    ELSE WrapTokens(SubSeq(s, 1, StatementEnd(s, 1)), 1)

\* calling a function with a keyword argument it does not declare
TypeError == [raised |-> "TypeError"]

\* the facade without its time-filter step
validate_sql_comprehensive_NoTimeStep(s, rtf, ro, db, parse) ==
    IF ro # "absent" THEN TypeError
    ELSE IF ~validate_sql_basic(s, parse).valid THEN validate_sql_basic(s, parse)
    ELSE IF Truthy(db) /\ ~validate_panther_database_name(db).valid
         THEN validate_panther_database_name(db)
    ELSE [valid |-> TRUE, error |-> None,
          processed_sql |-> wrap_reserved_words(s, parse)]

\* validate_sql_comprehensive(sql, require_time_filter, database_name); ro is
\* the keyword argument read_only of the call, which the signature lacks
validate_sql_comprehensive(s, rtf, ro, db, parse) ==
    IF ro # "absent" THEN TypeError
    ELSE IF ~validate_sql_basic(s, parse).valid THEN validate_sql_basic(s, parse)
    ELSE IF rtf /\ ~validate_sql_time_filter(s).valid THEN validate_sql_time_filter(s)
    ELSE IF Truthy(db) /\ ~validate_panther_database_name(db).valid
         THEN validate_panther_database_name(db)
    ELSE [valid |-> TRUE, error |-> None,
          processed_sql |-> wrap_reserved_words(s, parse)]

\* whether an operation that starts with validate_sql_basic reaches sqlparse
ReachesParse(s) == ~Blank(s) /\ CharLen(s) <= MaxQueryLen

-----------------------------------------------------------------------------
(* Read-only enforcement (validate_sql_read_only), after the specification:  *)
(* the module under src/ does not define it.                                *)

ReadOnlyKeywords ==
    <<"DROP", "DELETE", "INSERT", "UPDATE", "CREATE", "ALTER", "TRUNCATE",
      "REPLACE", "MERGE", "UPSERT", "GRANT", "REVOKE", "COMMIT", "ROLLBACK",
      "SAVEPOINT">>

ReadOnlyMsg(keyword) == <<"Query contains forbidden keyword: ", keyword>>

\* \b<keyword>\b somewhere in the upper-cased text
HasToken(s, keyword) ==
    \E i \in 1..Len(s) :
        s[i] = keyword /\ BoundaryBefore(s, i) /\ BoundaryAfter(s, i)

validate_sql_read_only(s) ==
    LET hits == {k \in 1..Len(ReadOnlyKeywords) : HasToken(Upper(s), ReadOnlyKeywords[k])}
    IN  IF hits = {} THEN Passed
        ELSE Failed(ReadOnlyMsg(ReadOnlyKeywords[CHOOSE k \in hits : \A m \in hits : k <= m]))

-----------------------------------------------------------------------------
(* tools/data_lake.py: the reserved-word rewriter *)

ANSI_RESERVED_WORDS ==
    {"ALL", "ALTER", "AND", "ANY", "AS", "BETWEEN", "BY", "CHECK", "COLUMN", "CONNECT",
     "CREATE", "CURRENT", "DELETE", "DISTINCT", "DROP", "ELSE", "EXISTS", "FOR", "FROM",
     "GRANT", "GROUP", "HAVING", "IN", "INSERT", "INTERSECT", "INTO", "IS", "LIKE",
     "NOT", "NULL", "OF", "ON", "OR", "ORDER", "REVOKE", "ROW", "ROWS", "SAMPLE",
     "SELECT", "SET", "START", "TABLE", "TABLESAMPLE", "THEN", "TO", "TRIGGER",
     "UNION", "UNIQUE", "UPDATE", "VALUES", "WHENEVER", "WHERE", "WINDOW", "WITH"}

\* SNOWFLAKE_RESERVED_WORDS of data_lake.py (sql_validation.py has its own)
data_lake_SNOWFLAKE_RESERVED_WORDS ==
    {"ILIKE", "INCREMENT", "MINUS", "QUALIFY", "REGEXP", "RLIKE", "SOME"}

ADDITIONAL_PROBLEMATIC_WORDS ==
    {"ACCOUNT", "CONNECTION", "DATABASE", "GSCLUSTER", "ISSUE", "ORGANIZATION",
     "SCHEMA", "VIEW"}

SCALAR_EXPRESSION_FORBIDDEN == {"CASE", "CAST", "FALSE", "TRUE", "TRY_CAST", "WHEN"}

COLUMN_NAME_FORBIDDEN == {"CURRENT_USER", "LOCALTIME", "LOCALTIMESTAMP"}

QUOTABLE_RESERVED_WORDS ==
    ANSI_RESERVED_WORDS \cup data_lake_SNOWFLAKE_RESERVED_WORDS
        \cup ADDITIONAL_PROBLEMATIC_WORDS

column_context_words ==
    QUOTABLE_RESERVED_WORDS \
        {"ALL", "AND", "AS", "BY", "DISTINCT", "ELSE", "EXISTS", "FOR", "FROM",
         "GROUP", "HAVING", "IN", "IS", "LIKE", "NOT", "NULL", "OF", "ON", "OR",
         "ORDER", "SELECT", "SET", "THEN", "TO", "UNION", "UPDATE", "WHERE", "WITH"}

\* \bW\b at position k, under re.IGNORECASE
IsTokenAt(s, k, W) ==
    UpperAtom(s[k]) = W /\ BoundaryBefore(s, k) /\ BoundaryAfter(s, k)

\* the lookahead left out: a word followed by '(' counts as a column
NotCall_Ignored(s, k) == TRUE

\* (?!\s*\() after position k
NotCall(s, k) ==
    LET n == SkipSpace(s, k) IN n > Len(s) \/ s[n] # "("

\* (?![^,]*\b(?:WHEN|THEN|ELSE|END)\b) after position k
NoCaseKeywordAhead(s, k) ==
    ~\E m \in (k + 1)..Len(s) :
        /\ \E W \in {"WHEN", "THEN", "ELSE", "END"} : IsTokenAt(s, m, W)
        /\ \A n \in (k + 1)..(m - 1) : s[n] # ","

\* re.search(r"\bSELECT\b[^;]*\bW\b(?!\s*\()", sql, re.IGNORECASE), with the
\* extra lookahead of the pattern built for CASE and WHEN
ForbiddenSearch(s, W) ==
    \E i \in 1..Len(s) :
        /\ IsTokenAt(s, i, "SELECT")
        /\ \E k \in (i + 1)..Len(s) :
            /\ IsTokenAt(s, k, W)
            /\ NotCall(s, k)
            /\ W \in {"CASE", "WHEN"} => NoCaseKeywordAhead(s, k)
            /\ \A n \in (i + 1)..(k - 1) : s[n] # ";"

ScalarForbiddenMsg(W) ==
    <<"Query contains forbidden keyword usage: '", W,
      "' cannot be used as column reference in scalar expressions. ",
      "Forbidden scalar expression words: CASE, CAST, FALSE, TRUE, TRY_CAST, WHEN">>

ColumnForbiddenMsg(W) ==
    <<"Query contains forbidden keyword usage: '", W,
      "' cannot be used as column name (reserved by ANSI). ",
      "Forbidden column names: CURRENT_USER, LOCALTIME, LOCALTIMESTAMP">>

\* (?!FROM\s) after the last character of atom n
FromAfter(s, n) ==
    n + 2 <= Len(s) /\ UpperAtom(s[n + 1]) = "FROM" /\ IsSpace(s[n + 2])

\* (?=\s+FROM\s) after position e
FromLookahead(s, e) ==
    /\ e + 1 <= Len(s)
    /\ IsSpace(s[e + 1])
    /\ LET f == SkipSpace(s, e)
       IN  f + 1 <= Len(s) /\ UpperAtom(s[f]) = "FROM" /\ IsSpace(s[f + 1])

\* \b(SELECT\s+) at position i
SelectAt(s, i) ==
    /\ UpperAtom(s[i]) = "SELECT"
    /\ BoundaryBefore(s, i)
    /\ i + 1 <= Len(s)
    /\ IsSpace(s[i + 1])

\* ((?:[^;](?!FROM\s))*?)(?=\s+FROM\s) from position e on: the last position
\* of the shortest content that the lookahead accepts, 0 when there is none
RECURSIVE ContentEnd(_, _)
ContentEnd(s, e) ==
    IF e > Len(s) THEN 0
    ELSE IF s[e] = ";" \/ FromAfter(s, e) THEN 0
    ELSE IF FromLookahead(s, e) THEN e
    ELSE ContentEnd(s, e + 1)

NoMatch == [first |-> 0, last |-> 0, resume |-> 0]

\* one match of select_clause_pattern starting at the SELECT of position i:
\* the positions of group 2 and the position where re.sub resumes.  \s+ takes
\* the whole run of whitespace; it gives one blank back only when FROM
\* follows the run directly, and group 2 is then empty.
SelectClauseMatch(s, i) ==
    LET w == SkipSpace(s, i) - 1
        e == ContentEnd(s, w + 1)
    IN  IF e # 0 THEN [first |-> w + 1, last |-> e, resume |-> e + 1]
        ELSE IF w >= i + 2 /\ FromLookahead(s, w - 1)
             THEN [first |-> w, last |-> w - 1, resume |-> w]
        ELSE NoMatch

\* the positions inside group 2 of the matches re.sub finds from position p on
RECURSIVE SelectContent(_, _)
SelectContent(s, p) ==
    IF p > Len(s) THEN {}
    ELSE IF SelectAt(s, p) /\ SelectClauseMatch(s, p) # NoMatch
         THEN LET m == SelectClauseMatch(s, p)
              IN  (m.first..m.last) \cup SelectContent(s, m.resume)
    ELSE SelectContent(s, p + 1)

\* reserved_word_pattern without its lookbehind for a quote character
ReservedWordAt_NoLookbehind(s, k) ==
    /\ UpperAtom(s[k]) \in column_context_words
    /\ BoundaryBefore(s, k)
    /\ BoundaryAfter(s, k)
    /\ NotCall(s, k)

\* reserved_word_pattern matches the atom at position k
ReservedWordAt(s, k) ==
    /\ UpperAtom(s[k]) \in column_context_words
    /\ BoundaryBefore(s, k)
    /\ BoundaryAfter(s, k)
    /\ k > 1 => s[k - 1] \notin {"\"", "'", BackTick}
    /\ NotCall(s, k)

quote_reserved_word_match(word) == <<"\"", word, "\"">>

\* re.sub(select_clause_pattern, process_select_clause, sql)
RECURSIVE process_select_clause(_, _, _)
process_select_clause(s, content, k) ==
    IF k > Len(s) THEN <<>>
    ELSE (IF k \in content /\ ReservedWordAt(s, k)
          THEN quote_reserved_word_match(s[k]) ELSE <<s[k]>>)
         \o process_select_clause(s, content, k + 1)

\* The tuples (sql, error) that _validate_and_wrap_reserved_words can return.
\* The two loops iterate over Python sets, whose order changes from process
\* to process: when several forbidden words match, any of them may be the
\* one the message names.
validate_and_wrap_reserved_words(s) ==
    LET scalar == {W \in SCALAR_EXPRESSION_FORBIDDEN : ForbiddenSearch(s, W)}
        column == {W \in COLUMN_NAME_FORBIDDEN : ForbiddenSearch(s, W)}
    IN  IF scalar # {} THEN {[sql |-> s, error |-> ScalarForbiddenMsg(W)] : W \in scalar}
        ELSE IF column # {} THEN {[sql |-> s, error |-> ColumnForbiddenMsg(W)] : W \in column}
        ELSE {[sql |-> process_select_clause(s, SelectContent(s, 1), 1), error |-> None]}

-----------------------------------------------------------------------------
(* tools/data_lake.py: _validate_fully_qualified_tables.  The function is   *)
(* imported by the tests but its definition is not part of the sources at   *)
(* hand; it is modelled from its specification: every table named in a      *)
(* FROM/JOIN clause must include at least one ".".                          *)

\* FROM or JOIN, a keyword of its own, followed by whitespace
TableKeywordAt(s, i) ==
    /\ IsTokenAt(s, i, "FROM") \/ IsTokenAt(s, i, "JOIN")
    /\ i + 1 <= Len(s)
    /\ IsSpace(s[i + 1])

\* the last position of the run of identifier characters and dots from f on
RECURSIVE TableRefEnd(_, _)
TableRefEnd(s, f) ==
    IF f + 1 <= Len(s) /\ (IsWord(s[f + 1]) \/ s[f + 1] = ".")
    THEN TableRefEnd(s, f + 1) ELSE f

\* the positions where a table reference starts
TableRefStarts(s) ==
    {f \in 1..Len(s) :
        /\ IsWord(s[f])
        /\ \E i \in 1..(f - 1) : TableKeywordAt(s, i) /\ SkipSpace(s, i) = f}

NotQualifiedMsg(ref) ==
    <<"Table reference '">> \o ref \o <<"' is not fully qualified">>

\* validate_fully_qualified_tables with the JOIN clauses left unchecked
validate_fully_qualified_tables_FromOnly(s) ==
    LET bad == {f \in TableRefStarts(s) :
                   /\ \E i \in 1..(f - 1) : IsTokenAt(s, i, "FROM") /\ SkipSpace(s, i) = f
                   /\ \A n \in f..TableRefEnd(s, f) : s[n] # "."}
    IN  IF bad = {} THEN None
        ELSE LET f == CHOOSE g \in bad : \A h \in bad : g <= h
             IN  NotQualifiedMsg(SubSeq(s, f, TableRefEnd(s, f)))

validate_fully_qualified_tables(s) ==
    LET bad == {f \in TableRefStarts(s) : \A n \in f..TableRefEnd(s, f) : s[n] # "."}
    IN  IF bad = {} THEN None
        ELSE LET f == CHOOSE g \in bad : \A h \in bad : g <= h
             IN  NotQualifiedMsg(SubSeq(s, f, TableRefEnd(s, f)))

-----------------------------------------------------------------------------
(* tools/data_lake.py: execute_data_lake_query *)

InlineTimeMsg ==
    <<"Query must include p_event_time as a filter condition after WHERE or AND">>

ExecErrorMsg(detail) == <<"Failed to execute data lake query: ", detail>>

ExecFailure(msg) == [success |-> FALSE, message |-> msg]

ExecSuccess(id) == [success |-> TRUE, query_id |-> id]

\* sql.lower().replace("\n", " ")
sql_lower(s) == [i \in 1..Len(s) |-> IF s[i] = "\n" THEN " " ELSE LowerAtom(s[i])]

\* the p_event_time pattern without its operator group
InlinePatternSearch_NoOperator(s) ==
    \E i \in 1..Len(s) :
        /\ s[i] \in {"where", "and"}
        /\ BoundaryBefore(s, i)
        /\ i + 1 <= Len(s)
        /\ IsSpace(s[i + 1])
        /\ \E j \in (i + 2)..Len(s) : s[j] = "p_event_time"

\* re.search of the p_event_time pattern without re.DOTALL: \s+ and \s* may
\* hold a newline, the lazy .*? may not
InlinePatternSearch(s) ==
    \E i \in 1..Len(s) :
        /\ s[i] \in {"where", "and"}
        /\ BoundaryBefore(s, i)
        /\ i + 1 <= Len(s)
        /\ IsSpace(s[i + 1])
        /\ \E j \in (i + 2)..Len(s) :
            /\ s[j] = "p_event_time"
            /\ SkipSpace(s, j) <= Len(s)
            /\ IsOperatorStart(s[SkipSpace(s, j)])
            /\ \E m \in (i + 1)..(j - 1) :
                /\ \A n \in (i + 1)..m : IsSpace(s[n])
                /\ \A n \in (m + 1)..(j - 1) : s[n] # "\n"

\* what session.execute can give back: a result with an id, with an empty
\* id, without an id, or an exception
Responses ==
    {[kind |-> "id", id |-> "q1"], [kind |-> "id", id |-> ""],
     [kind |-> "no_id"], [kind |-> "raise"]}

-----------------------------------------------------------------------------
(* tools/data_lake.py: the name normalizer.  A name is a sequence of         *)
(* characters; a character above codepoint 127 is written by its name.       *)

LowerLetters ==
    {"a", "b", "c", "d", "e", "f", "g", "h", "i", "j", "k", "l", "m",
     "n", "o", "p", "q", "r", "s", "t", "u", "v", "w", "x", "y", "z"}

UpperLetters ==
    {"A", "B", "C", "D", "E", "F", "G", "H", "I", "J", "K", "L", "M",
     "N", "O", "P", "Q", "R", "S", "T", "U", "V", "W", "X", "Y", "Z"}

Digits == {"0", "1", "2", "3", "4", "5", "6", "7", "8", "9"}

\* a word of the two tables, as the characters it is made of
AtSign == <<"a", "t", "_", "s", "i", "g", "n">>

DollarSign == <<"d", "o", "l", "l", "a", "r", "_", "s", "i", "g", "n">>

transliterate_chars ==
    ("@" :> AtSign)
    @@ ("," :> <<"c", "o", "m", "m", "a">>)
    @@ (BackTick :> <<"b", "a", "c", "k", "t", "i", "c", "k">>)
    @@ ("'" :> <<"a", "p", "o", "s", "t", "r", "o", "p", "h", "e">>)
    @@ ("$" :> DollarSign)
    @@ ("*" :> <<"a", "s", "t", "e", "r", "i", "s", "k">>)
    @@ ("&" :> <<"a", "m", "p", "e", "r", "s", "a", "n", "d">>)
    @@ ("!" :> <<"e", "x", "c", "l", "a", "m", "a", "t", "i", "o", "n">>)
    @@ ("%" :> <<"p", "e", "r", "c", "e", "n", "t">>)
    @@ ("+" :> <<"p", "l", "u", "s">>)
    @@ ("/" :> <<"s", "l", "a", "s", "h">>)
    @@ ("\\" :> <<"b", "a", "c", "k", "s", "l", "a", "s", "h">>)
    @@ ("#" :> <<"h", "a", "s", "h">>)
    @@ ("~" :> <<"t", "i", "l", "d", "e">>)
    @@ ("=" :> <<"e", "q">>)

number_to_word ==
    ("0" :> <<"z", "e", "r", "o">>)
    @@ ("1" :> <<"o", "n", "e">>)
    @@ ("2" :> <<"t", "w", "o">>)
    @@ ("3" :> <<"t", "h", "r", "e", "e">>)
    @@ ("4" :> <<"f", "o", "u", "r">>)
    @@ ("5" :> <<"f", "i", "v", "e">>)
    @@ ("6" :> <<"s", "i", "x">>)
    @@ ("7" :> <<"s", "e", "v", "e", "n">>)
    @@ ("8" :> <<"e", "i", "g", "h", "t">>)
    @@ ("9" :> <<"n", "i", "n", "e">>)

\* anyascii.anyascii(c) for the characters above codepoint 127 of the model:
\* Greek capital mu, Greek upsilon with tonos, the modifier letter apostrophe
\* U+02BC, the no-break space, the fullwidth digit three, the fullwidth
\* commercial at, and a private-use character (no transliteration)
anyascii ==
    ("GREEK_MU" :> <<"M">>)
    @@ ("GREEK_UPSILON_TONOS" :> <<"y">>)
    @@ ("MODIFIER_APOSTROPHE" :> <<"'">>)
    @@ ("NO_BREAK_SPACE" :> <<" ">>)
    @@ ("FULLWIDTH_THREE" :> <<"3">>)
    @@ ("FULLWIDTH_AT" :> <<"@">>)
    @@ ("PRIVATE_USE" :> <<>>)

\* ord(c) > 127
NonAscii(c) == c \in DOMAIN anyascii

\* [a-zA-Z_-]
IsNameStart(c) == c \in LowerLetters \cup UpperLetters \cup {"_", "-"}

\* [a-zA-Z0-9_-]
IsNameChar(c) == IsNameStart(c) \/ c \in Digits

\* re.match(r"^[a-zA-Z_-][a-zA-Z0-9_-]*$", n): $ also matches before a
\* newline that ends the text
NameMatch(n) ==
    LET body == IF n # <<>> /\ n[Len(n)] = "\n" THEN SubSeq(n, 1, Len(n) - 1) ELSE n
    IN  /\ body # <<>>
        /\ IsNameStart(body[1])
        /\ \A i \in 2..Len(body) : IsNameChar(body[i])

\* _is_name_normalized accepting a digit as the first character
is_name_normalized_DigitFirst(n) ==
    n # <<>> /\ \A i \in 1..Len(n) : IsNameChar(n[i])

is_name_normalized(n) == NameMatch(n)

\* the loop body appending every transliteration, apostrophe and space included
Appended_RawTransliteration(c, i, last) ==
    IF NonAscii(c) THEN anyascii[c]
    ELSE IF c \in DOMAIN transliterate_chars THEN transliterate_chars[c]
    ELSE <<c>>

\* what one pass of the loop appends for the character at index i (from 0)
\* of characters, last being len(characters) - 1
Appended(c, i, last) ==
    IF c \in LowerLetters \cup UpperLetters THEN <<c>>
    ELSE IF c \in Digits THEN (IF i = 0 THEN number_to_word[c] \o <<"_">> ELSE <<c>>)
    ELSE IF c = "_" \/ c = "-" THEN <<c>>
    ELSE IF c \in DOMAIN transliterate_chars
         THEN (IF i > 0 THEN <<"_">> ELSE <<>>)
              \o transliterate_chars[c]
              \o (IF i < last THEN <<"_">> ELSE <<>>)
    ELSE IF NonAscii(c) /\ anyascii[c] # <<>> /\ anyascii[c] # <<"'">> /\ anyascii[c] # <<" ">>
         THEN anyascii[c]
    ELSE <<"_">>

\* the loop of _normalize_name from index i on
RECURSIVE NormalizeFrom(_, _)
NormalizeFrom(characters, i) ==
    IF i > Len(characters) - 1 THEN <<>>
    ELSE Appended(characters[i + 1], i, Len(characters) - 1)
         \o NormalizeFrom(characters, i + 1)

\* _normalize_name without the leading underscore of a mapped symbol
normalize_name_NoLeadingUnderscore(n) ==
    IF is_name_normalized(n) THEN n
    ELSE LET strip(c, img) == IF c \in DOMAIN transliterate_chars /\ img[1] = "_"
                              THEN Tail(img) ELSE img
             RECURSIVE from(_)
             from(i) == IF i > Len(n) - 1 THEN <<>>
                        ELSE strip(n[i + 1], Appended(n[i + 1], i, Len(n) - 1)) \o from(i + 1)
         IN  from(0)

normalize_name(n) ==
    IF is_name_normalized(n) THEN n ELSE NormalizeFrom(n, 0)

-----------------------------------------------------------------------------
(* The validators and the facade, each called once on arguments drawn from  *)
(* bounded sets.                                                            *)

NoResult == [pending |-> TRUE]

GuardAtoms == {" ", "p_occurs_since", "Drop", "x", Pad}

GuardSqls == {None} \cup SeqsUpTo(GuardAtoms, MaxLen)

GuardDatabases ==
    {None, <<>>, <<" ">>, <<"PANTHER_LOGS", ".", "public">>, <<"panther_logs">>}

ExecIdle ==
    /\ pc = "idle"
    /\ exec_sql = None
    /\ api_calls = 0
    /\ api_sql = None

\* no dialect setting in the environment and no date arithmetic asked for
DialectIdle ==
    /\ PANTHER_DATASTORE_TYPE = None
    /\ unit = None
    /\ amount = 0
    /\ base_expr = None

\* No PermissionBuilder call has been made: PermissionBuilder.__init__ leaves
\* an empty dictionary.
BuilderIdle ==
    /\ annotations = <<>>
    /\ calls = <<>>

\* No concurrent callers.
ConcurrentIdle ==
    /\ invocations = <<>>
    /\ frames = <<>>
    /\ set_order = 1

Init ==
    /\ sql \in GuardSqls
    /\ require_time_filter \in BOOLEAN
    /\ read_only \in {"absent", "True", "False"}
    /\ database_name \in GuardDatabases
    /\ op = "none"
    /\ tokenizer = "unused"
    /\ result = NoResult
    /\ table_name = None
    /\ ExecIdle
    /\ BuilderIdle
    /\ ConcurrentIdle
    /\ DialectIdle

Args == <<sql, require_time_filter, read_only, database_name, table_name,
          PANTHER_DATASTORE_TYPE, unit, amount, base_expr>>

Builder == <<annotations, calls>>

Concurrent == <<invocations, frames, set_order>>

Exec == <<pc, exec_sql, api_calls, api_sql>>

CallValidateSqlBasic ==
    /\ op = "none"
    /\ \E parse \in ParseOutcomes :
        /\ tokenizer' = IF ReachesParse(sql) THEN parse ELSE "unused"
        /\ result' = validate_sql_basic(sql, parse)
    /\ op' = "validate_sql_basic"
    /\ UNCHANGED <<Args, Builder, Concurrent, Exec>>

CallValidateSqlTimeFilter ==
    /\ op = "none"
    /\ result' = validate_sql_time_filter(sql)
    /\ op' = "validate_sql_time_filter"
    /\ UNCHANGED <<Args, Builder, Concurrent, Exec, tokenizer>>

CallValidatePantherDatabaseName ==
    /\ op = "none"
    /\ result' = validate_panther_database_name(database_name)
    /\ op' = "validate_panther_database_name"
    /\ UNCHANGED <<Args, Builder, Concurrent, Exec, tokenizer>>

CallValidateSqlReadOnly ==
    /\ op = "none"
    /\ sql # None
    /\ result' = validate_sql_read_only(sql)
    /\ op' = "validate_sql_read_only"
    /\ UNCHANGED <<Args, Builder, Concurrent, Exec, tokenizer>>

CallValidateSqlComprehensive ==
    /\ op = "none"
    /\ \E parse \in ParseOutcomes :
        /\ tokenizer' = IF read_only = "absent" /\ ReachesParse(sql)
                        THEN parse ELSE "unused"
        /\ result' = validate_sql_comprehensive(sql, require_time_filter,
                                                read_only, database_name, parse)
    /\ op' = "validate_sql_comprehensive"
    /\ UNCHANGED <<Args, Builder, Concurrent, Exec>>

Next ==
    \/ CallValidateSqlBasic
    \/ CallValidateSqlTimeFilter
    \/ CallValidatePantherDatabaseName
    \/ CallValidateSqlReadOnly
    \/ CallValidateSqlComprehensive

Spec == Init /\ [][Next]_vars

-----------------------------------------------------------------------------
(* Claims about the facade and the ValidationResult contract.               *)

\* the operation returned a ValidationResult (it did not raise)
Returned == "valid" \in DOMAIN result

C2_ValidationResultInvariant ==
    (/\ op \in {"validate_sql_basic", "validate_sql_time_filter",
                "validate_panther_database_name", "validate_sql_comprehensive"}
     /\ Returned) =>
        /\ result.valid \in BOOLEAN
        /\ ~result.valid =>
            /\ result.error # None
            /\ result.error # <<>>
            /\ "processed_sql" \notin DOMAIN result
        /\ result.valid => result.error = None

\* the facade returned a failure of the size limit
C2_Witness ==
    /\ op = "validate_sql_comprehensive"
    /\ Returned
    /\ ~result.valid
    /\ result.error = TooLongMsg

\* the read-only keywords that stand in s as tokens of their own, in any case
KeywordTokens(s) ==
    {ReadOnlyKeywords[k] : k \in {m \in 1..Len(ReadOnlyKeywords) :
        \E i \in 1..Len(s) :
            /\ UpperAtom(s[i]) = ReadOnlyKeywords[m]
            /\ (i > 1 => ~IsWord(s[i - 1]))
            /\ (i < Len(s) => ~IsWord(s[i + 1]))}}

\* the result section 4.6 prescribes: the error of the first failing step in
\* the order basic shape, time filter, read-only, database name
ExpectedFacade ==
    IF ~validate_sql_basic(sql, tokenizer).valid
    THEN validate_sql_basic(sql, tokenizer)
    ELSE IF require_time_filter /\ ~validate_sql_time_filter(sql).valid
    THEN validate_sql_time_filter(sql)
    ELSE IF read_only = "True" /\ ~validate_sql_read_only(sql).valid
    THEN validate_sql_read_only(sql)
    ELSE IF database_name # None /\ ~validate_panther_database_name(database_name).valid
    THEN validate_panther_database_name(database_name)
    ELSE Passed

\* C3: validate_sql_comprehensive(sql, require_time_filter, read_only,
\* database_name) applies basic shape, time filter (if require_time_filter),
\* read-only (if read_only) and database name (if provided) in that order and
\* returns the error of the first check that fails; a check whose flag is off
\* never affects the result, and the rewriting is reached only when every
\* enabled check passed.
C3_FixedOrderFirstFailure ==
    (op = "validate_sql_comprehensive" /\ database_name # <<>>) =>
        /\ Returned
        /\ result.valid = ExpectedFacade.valid
        /\ result.error = ExpectedFacade.error
        /\ "processed_sql" \in DOMAIN result <=> ExpectedFacade.valid

\* C4: if a read-only keyword occurs as a standalone token in any letter
\* case, validate_sql_read_only, and validate_sql_comprehensive with
\* read_only=True, return valid = false with an error naming the upper-case
\* keyword; a keyword that is only part of a longer identifier does not
\* cause rejection.
C4_ReadOnlyEnforced ==
    /\ op = "validate_sql_read_only" =>
        /\ result.valid <=> KeywordTokens(sql) = {}
        /\ ~result.valid =>
            \E k \in KeywordTokens(sql) : result.error = ReadOnlyMsg(k)
    /\ (/\ op = "validate_sql_comprehensive"
        /\ read_only = "True"
        /\ ReachesParse(sql)
        /\ ~require_time_filter
        /\ KeywordTokens(sql) # {}) =>
            /\ Returned
            /\ ~result.valid
            /\ \E k \in KeywordTokens(sql) : result.error = ReadOnlyMsg(k)

-----------------------------------------------------------------------------
(* validate_sql_basic alone, on inputs around the size limit.               *)

BasicAtoms == {" ", "x", Pad, SpacePad}

InitBasic ==
    /\ sql \in {None} \cup SeqsUpTo(BasicAtoms, MaxBasicLen)
    /\ require_time_filter = FALSE
    /\ read_only = "absent"
    /\ database_name = None
    /\ op = "none"
    /\ tokenizer = "unused"
    /\ result = NoResult
    /\ table_name = None
    /\ ExecIdle
    /\ BuilderIdle
    /\ ConcurrentIdle
    /\ DialectIdle

NextBasic == CallValidateSqlBasic

SpecBasic == InitBasic /\ [][NextBasic]_vars

\* None, the empty string or only whitespace
IsBlankInput(s) == s = None \/ \A i \in 1..Len(s) : s[i] \in SpaceAtoms

\* C10 (as amended): validate_sql_basic rejects None, the empty string and
\* whitespace-only input (of any length) with 'cannot be empty', rejects
\* every other input longer than 10,000 characters with 'too long', and
\* accepts every other input of at most 10,000 characters (the input is
\* measured untrimmed; exactly 10,000 included) that the tokenizer parses;
\* the limit is the specification's 10,000.
C10_BasicShape ==
    op = "validate_sql_basic" =>
        /\ MaxQueryLen = 10000
        /\ IsBlankInput(sql) => result = Failed(EmptyMsg)
        /\ (~IsBlankInput(sql) /\ CharLen(sql) > 10000) => result = Failed(TooLongMsg)
        /\ (~IsBlankInput(sql) /\ CharLen(sql) <= 10000 /\ tokenizer = "ok") =>
              result = Passed

\* an input of exactly 10,000 characters accepted
C10_Witness ==
    /\ op = "validate_sql_basic"
    /\ CharLen(sql) = 10000
    /\ result = Passed

\* C10 (as stated): the same, with 'too long' for every input longer than
\* 10,000 characters.
C10_AsStated ==
    op = "validate_sql_basic" =>
        /\ IsBlankInput(sql) => result = Failed(EmptyMsg)
        /\ CharLen(sql) > 10000 => result = Failed(TooLongMsg)
        /\ (~IsBlankInput(sql) /\ CharLen(sql) <= 10000 /\ tokenizer = "ok") =>
              result = Passed

-----------------------------------------------------------------------------
(* validate_panther_database_name alone.                                    *)

DbAtoms == {"panther_logs", "Panther_Views", ".", "public", "PUBLIC", " ", "x"}

InitDb ==
    /\ sql = None
    /\ require_time_filter = FALSE
    /\ read_only = "absent"
    /\ database_name \in {None} \cup SeqsUpTo(DbAtoms, MaxDbLen)
    /\ op = "none"
    /\ tokenizer = "unused"
    /\ result = NoResult
    /\ table_name = None
    /\ ExecIdle
    /\ BuilderIdle
    /\ ConcurrentIdle
    /\ DialectIdle

NextDb == CallValidatePantherDatabaseName

SpecDb == InitDb /\ [][NextDb]_vars

\* the Panther databases of the allow-list
PantherDatabases ==
    {"panther_logs", "panther_views", "panther_signals", "panther_rule_matches",
     "panther_rule_errors", "panther_monitor", "panther_cloudsecurity"}

\* s without the whitespace at its two ends
RECURSIVE Trimmed(_)
Trimmed(s) ==
    IF s = <<>> THEN s
    ELSE IF Head(s) \in SpaceAtoms THEN Trimmed(Tail(s))
    ELSE IF s[Len(s)] \in SpaceAtoms THEN Trimmed(SubSeq(s, 1, Len(s) - 1))
    ELSE s

\* C8: validate_panther_database_name accepts a name if and only if, after
\* trimming and lower-casing, it is exactly one of the seven Panther
\* databases followed by '.public'; every other name is rejected with
\* 'Invalid database name', and an empty, whitespace-only or None name with
\* 'cannot be empty'.
C8_DatabaseAllowList ==
    op = "validate_panther_database_name" =>
        LET name == database_name
        IN  IF name = None \/ Trimmed(name) = <<>>
            THEN result = Failed(DbEmptyMsg)
            ELSE IF /\ Len(Trimmed(name)) = 3
                    /\ LowerAtom(Trimmed(name)[1]) \in PantherDatabases
                    /\ Trimmed(name)[2] = "."
                    /\ LowerAtom(Trimmed(name)[3]) = "public"
                 THEN result = Passed
                 ELSE /\ ~result.valid
                      /\ SubSeq(result.error, 1, 1) = <<"Invalid database name '">>

\* a listed database in upper or mixed case, with blanks around it, accepted
C8_Witness ==
    /\ op = "validate_panther_database_name"
    /\ result = Passed
    /\ database_name[1] = " "
    /\ database_name[2] = "Panther_Views"

-----------------------------------------------------------------------------
(* validate_sql_time_filter alone.                                          *)

TimeAtoms == {"where", "AND", " ", "P_Event_Time", "=", "x", ".", "(", "P_OCCURS_SINCE"}

InitTime ==
    /\ sql \in SeqsUpTo(TimeAtoms, MaxTimeLen)
    /\ require_time_filter = FALSE
    /\ read_only = "absent"
    /\ database_name = None
    /\ op = "none"
    /\ tokenizer = "unused"
    /\ result = NoResult
    /\ table_name = None
    /\ ExecIdle
    /\ BuilderIdle
    /\ ConcurrentIdle
    /\ DialectIdle

NextTime == CallValidateSqlTimeFilter

SpecTime == InitTime /\ [][NextTime]_vars

\* a macro name somewhere in s, in any letter case
ContainsMacro(s) ==
    \E i \in 1..Len(s) :
        LowerAtom(s[i]) \in {"p_occurs_since", "p_occurs_between", "p_occurs_around",
                             "p_occurs_after", "p_occurs_before"}

\* after position j, possibly after whitespace, comes >=, <=, =, >, < or BETWEEN
OperatorFollows(s, j) ==
    \E k \in (j + 1)..Len(s) :
        /\ \A m \in (j + 1)..(k - 1) : s[m] \in SpaceAtoms
        /\ LowerAtom(s[k]) \in {"=", ">", "<", "between"}

\* where/and, in any case, starting at a word boundary and followed by
\* whitespace; later the text p_event_time (bare, qualified, or the tail of a
\* longer identifier) with an operator after it
FilterAfterSpacedKeyword(s) ==
    \E i \in 1..Len(s) :
        /\ LowerAtom(s[i]) \in {"where", "and"}
        /\ (i = 1 \/ ~IsWord(s[i - 1]))
        /\ i + 1 <= Len(s)
        /\ s[i + 1] \in SpaceAtoms
        /\ \E j \in (i + 2)..Len(s) :
            /\ LowerAtom(s[j]) = "p_event_time"
            /\ OperatorFollows(s, j)

\* a WHERE/AND keyword (a token of its own), later a bare or table-qualified
\* p_event_time with an operator after it
FilterAfterKeyword(s) ==
    \E i \in 1..Len(s) :
        /\ LowerAtom(s[i]) \in {"where", "and"}
        /\ (i = 1 \/ ~IsWord(s[i - 1]))
        /\ i + 1 <= Len(s)
        /\ ~IsWord(s[i + 1])
        /\ \E j \in (i + 1)..Len(s) :
            /\ LowerAtom(s[j]) = "p_event_time"
            /\ ~IsWord(s[j - 1])
            /\ OperatorFollows(s, j)

\* C5 (as amended): validate_sql_time_filter accepts a non-blank query if and
\* only if it contains, in any letter case, a macro name, or where/and
\* starting at a word boundary and followed by whitespace and, later, the
\* text p_event_time (bare, table-qualified or ending a longer identifier)
\* followed, after optional whitespace, by >=, <=, =, >, < or BETWEEN;
\* otherwise the error is the 'time filter' message; an empty or
\* whitespace-only query is rejected with 'cannot be empty'.
C5_TimeFilterAccepts ==
    op = "validate_sql_time_filter" =>
        IF IsBlankInput(sql) THEN result = Failed(EmptyMsg)
        ELSE IF ContainsMacro(sql) \/ FilterAfterSpacedKeyword(sql) THEN result = Passed
        ELSE result = Failed(TimeFilterMsg)

\* a query accepted for a table-qualified, mixed-case p_event_time filter
C5_Witness ==
    /\ op = "validate_sql_time_filter"
    /\ result = Passed
    /\ ~ContainsMacro(sql)
    /\ \E j \in 2..Len(sql) : sql[j] = "P_Event_Time" /\ sql[j - 1] = "."

\* C5 (as stated): accepted if and only if a macro name is contained or a
\* WHERE/AND keyword is followed by a (possibly table-qualified) p_event_time
\* that is directly followed by an operator.
C5_AsStated ==
    op = "validate_sql_time_filter" =>
        IF IsBlankInput(sql) THEN result = Failed(EmptyMsg)
        ELSE IF ContainsMacro(sql) \/ FilterAfterKeyword(sql) THEN result = Passed
        ELSE result = Failed(TimeFilterMsg)

-----------------------------------------------------------------------------
(* _validate_fully_qualified_tables alone. *)

TableAtoms == {"FROM", "join", " ", "t", "db", ".", "("}

TableNames == {<<"t">>, <<"db", ".", "t">>, <<"db", ".", "public", ".", "t">>}

\* queries that name two tables
JoinQueries ==
    {<<"FROM", " ">> \o a \o <<" ", "join", " ">> \o b : a \in TableNames, b \in TableNames}

InitTables ==
    /\ sql \in SeqsUpTo(TableAtoms, MaxTablesLen) \cup JoinQueries
    /\ require_time_filter = FALSE
    /\ read_only = "absent"
    /\ database_name = None
    /\ op = "none"
    /\ tokenizer = "unused"
    /\ result = NoResult
    /\ table_name = None
    /\ ExecIdle
    /\ BuilderIdle
    /\ ConcurrentIdle
    /\ DialectIdle

CallValidateFullyQualifiedTables ==
    /\ op = "none"
    /\ result' = [error |-> validate_fully_qualified_tables(sql)]
    /\ op' = "_validate_fully_qualified_tables"
    /\ UNCHANGED <<Args, Builder, Concurrent, Exec, tokenizer>>

NextTables == CallValidateFullyQualifiedTables

SpecTables == InitTables /\ [][NextTables]_vars

-----------------------------------------------------------------------------
(* execute_data_lake_query: one invocation, from the call to the returned   *)
(* dictionary, with the remote API as an external collaborator.             *)

Columns == {<<"p_event_time">>, <<"t", ".", "p_event_time">>}

Projections == {<<"*">>} \cup Columns

ReservedProjections == {<<"FALSE">>, <<"account">>, <<"current_user">>}

Wheres ==
    {<<>>}
    \cup {<<" ", "WHERE", " ">> \o c \o <<" ", ">", "=", " ", "x">> : c \in Columns}
    \cup {<<" ", "WHERE", " ", "x", " ", "=", " ">> \o c : c \in Columns}

Tables == {<<"db", ".", "t">>, <<"t">>}

Select(p, src, w) == <<"SELECT", " ">> \o p \o <<" ", "FROM", " ">> \o src \o w

\* the queries with at most n levels of subqueries in FROM
RECURSIVE Queries(_)
Queries(n) ==
    LET srcs == Tables \cup
                (IF n = 0 THEN {} ELSE {<<"(">> \o q \o <<")">> : q \in Queries(n - 1)})
    IN  {Select(p, src, w) : p \in Projections, src \in srcs, w \in Wheres}

ExecSqls ==
    Queries(MaxNest)
    \cup {Select(p, <<"db", ".", "t">>, w) : p \in ReservedProjections, w \in Wheres}

InitExec ==
    /\ sql \in ExecSqls
    /\ require_time_filter = FALSE
    /\ read_only = "absent"
    /\ database_name = <<"panther_logs", ".", "public">>
    /\ op = "none"
    /\ tokenizer = "unused"
    /\ result = NoResult
    /\ table_name = None
    /\ ExecIdle
    /\ BuilderIdle
    /\ ConcurrentIdle
    /\ DialectIdle

\* from the call to the first await: reserved words, then the time filter
ExecStart ==
    /\ op = "none"
    /\ pc = "idle"
    /\ \E out \in validate_and_wrap_reserved_words(sql) :
        /\ exec_sql' = out.sql
        /\ IF out.error # None
           THEN pc' = "done" /\ result' = ExecFailure(out.error)
           ELSE IF ~InlinePatternSearch(sql_lower(out.sql))
           THEN pc' = "done" /\ result' = ExecFailure(InlineTimeMsg)
           ELSE pc' = "create_client" /\ result' = NoResult
    /\ op' = "execute_data_lake_query"
    /\ UNCHANGED <<Args, Builder, Concurrent, tokenizer, api_calls, api_sql>>

\* await _create_panther_client() and the entry of 'async with client':
\* either may raise, which the except clause turns into a failure
ExecCreateClient ==
    /\ pc = "create_client"
    /\ \/ pc' = "send" /\ UNCHANGED result
       \/ pc' = "done" /\ result' = ExecFailure(ExecErrorMsg("client"))
    /\ UNCHANGED <<Args, Builder, Concurrent, op, tokenizer, exec_sql, api_calls, api_sql>>

\* session.execute(EXECUTE_DATA_LAKE_QUERY, ...) is called with the rewritten sql
ExecSend ==
    /\ pc = "send"
    /\ api_calls' = api_calls + 1
    /\ api_sql' = exec_sql
    /\ pc' = "awaiting"
    /\ UNCHANGED <<Args, Builder, Concurrent, op, tokenizer, exec_sql, result>>

\* the await of session.execute resumes; the id is read and the dictionary returned
ExecReceive ==
    /\ pc = "awaiting"
    /\ \E r \in Responses :
        result' = IF r.kind = "raise" THEN ExecFailure(ExecErrorMsg("transport"))
                  ELSE IF r.kind = "no_id" \/ r.id = ""
                  THEN ExecFailure(ExecErrorMsg("No query ID returned from execution"))
                  ELSE ExecSuccess(r.id)
    /\ pc' = "done"
    /\ UNCHANGED <<Args, Builder, Concurrent, op, tokenizer, exec_sql, api_calls, api_sql>>

NextExec ==
    \/ ExecStart
    \/ ExecCreateClient
    \/ ExecSend
    \/ ExecReceive

SpecExec == InitExec /\ [][NextExec]_vars

-----------------------------------------------------------------------------
(* Claims about the fully-qualified-table check. *)

\* some table named after FROM or JOIN has no "." in its name
UnqualifiedTableNamed(s) ==
    \E i, f, e \in 1..Len(s) :
        /\ i < f /\ f <= e
        /\ LowerAtom(s[i]) \in {"from", "join"}
        /\ (i = 1 \/ ~IsWord(s[i - 1]))
        /\ \A n \in (i + 1)..(f - 1) : s[n] \in SpaceAtoms
        /\ i + 1 < f
        /\ \A n \in f..e : IsWord(s[n])
        /\ e = Len(s) \/ (~IsWord(s[e + 1]) /\ s[e + 1] # ".")

\* the message says 'not fully qualified'
SaysNotFullyQualified(msg) ==
    msg # None /\ \E n \in 1..Len(msg) : msg[n] = "' is not fully qualified"

\* C9: _validate_fully_qualified_tables returns an error containing 'not
\* fully qualified' if and only if some table named in a FROM or JOIN clause
\* contains no '.'; when every FROM/JOIN table contains a '.', it returns no
\* error; one unqualified table among qualified ones is enough to reject.
C9_FullyQualifiedTables ==
    op = "_validate_fully_qualified_tables" =>
        /\ SaysNotFullyQualified(result.error) <=> UnqualifiedTableNamed(sql)
        /\ ~UnqualifiedTableNamed(sql) => result.error = None

\* a query with a qualified table after FROM and an unqualified one after JOIN, rejected
C9_Witness ==
    /\ op = "_validate_fully_qualified_tables"
    /\ sql = <<"FROM", " ", "db", ".", "t", " ", "join", " ", "t">>
    /\ SaysNotFullyQualified(result.error)

-----------------------------------------------------------------------------
(* Claims about execute_data_lake_query. *)

\* reserved-word validation finds nothing forbidden in s
ReservedWordsPass(s) ==
    \A W \in SCALAR_EXPRESSION_FORBIDDEN \cup COLUMN_NAME_FORBIDDEN : ~ForbiddenSearch(s, W)

\* the tool returned success=false with the time-filter message, without a remote call
RejectedForTimeFilter ==
    /\ pc = "done"
    /\ result = ExecFailure(InlineTimeMsg)
    /\ api_calls = 0

\* the parentheses open before position k, each TRUE when it opens a subquery
RECURSIVE OpenParens(_, _)
OpenParens(s, k) ==
    IF k <= 1 THEN <<>>
    ELSE LET st == OpenParens(s, k - 1)
             n  == SkipSpace(s, k - 1)
         IN  IF s[k - 1] = "("
             THEN Append(st, n <= Len(s) /\ LowerAtom(s[n]) = "select")
             ELSE IF s[k - 1] = ")" /\ st # <<>> THEN SubSeq(st, 1, Len(st) - 1)
             ELSE st

InSubquery(s, k) ==
    \E n \in 1..Len(OpenParens(s, k)) : OpenParens(s, k)[n]

\* WHERE/AND of the outermost query followed, in the outermost query, by a
\* bare or table-qualified p_event_time and an operator
OuterScopedFilter(s) ==
    \E i \in 1..Len(s) :
        /\ LowerAtom(s[i]) \in {"where", "and"}
        /\ (i = 1 \/ ~IsWord(s[i - 1]))
        /\ i + 1 <= Len(s) /\ ~IsWord(s[i + 1])
        /\ ~InSubquery(s, i)
        /\ \E j \in (i + 1)..Len(s) :
            /\ LowerAtom(s[j]) = "p_event_time"
            /\ ~IsWord(s[j - 1])
            /\ OperatorFollows(s, j)
            /\ ~InSubquery(s, j)

\* C6 (as amended): execute_data_lake_query rejects, with the message 'Query
\* must include p_event_time as a filter condition after WHERE or AND' and
\* without calling the remote API, every query that passes reserved-word
\* validation and whose rewritten text has nowhere a WHERE/AND followed by
\* whitespace and later by p_event_time with a comparison operator or
\* BETWEEN directly after it: p_event_time only in a SELECT projection (of
\* the query or of a subquery) or only as the right-hand value of a
\* comparison is rejected, bare and table-qualified alike.  A filter inside
\* a subquery satisfies the gate.
C6_RejectsWithoutKeywordFilter ==
    op = "execute_data_lake_query" =>
        \/ RejectedForTimeFilter
        \/ FilterAfterSpacedKeyword(exec_sql)
        \/ ~ReservedWordsPass(sql)

\* a subquery that only projects the table-qualified p_event_time, rejected
C6_Witness ==
    /\ RejectedForTimeFilter
    /\ sql = Select(<<"*">>, <<"(">> \o Select(<<"t", ".", "p_event_time">>, <<"db", ".", "t">>, <<>>) \o <<")">>,
                    <<" ", "WHERE", " ", "x", " ", "=", " ", "p_event_time">>)

\* C6 (as stated): every query in which p_event_time is not used as an
\* outer-scoped filter is rejected with the time-filter message.
C6_AsStated ==
    op = "execute_data_lake_query" =>
        \/ RejectedForTimeFilter
        \/ OuterScopedFilter(sql)
        \/ ~ReservedWordsPass(sql)

\* C7: the remote API is called at most once and only after reserved-word
\* validation, the p_event_time check and the fully-qualified-table check
\* have passed; a failed validation gives success=false with the validation
\* message; success=true comes only with a non-empty query_id from the call.
C7_RemoteCallOnlyAfterValidation ==
    /\ api_calls <= 1
    /\ api_calls > 0 =>
        /\ ReservedWordsPass(sql)
        /\ InlinePatternSearch(sql_lower(exec_sql))
        /\ validate_fully_qualified_tables(sql) = None
    /\ (pc = "done" /\ ~ReservedWordsPass(sql)) =>
        \E out \in validate_and_wrap_reserved_words(sql) : result = ExecFailure(out.error)
    /\ (pc = "done" /\ validate_fully_qualified_tables(sql) # None) =>
        (~result.success /\ api_calls = 0)
    /\ (pc = "done" /\ result.success) =>
        (result.query_id # "" /\ api_calls = 1)

-----------------------------------------------------------------------------
(* The name normalizer called on names drawn from a bounded set. *)

NameChars ==
    {"a", "Z", "0", "2", "_", "-", "@", "=", ".", "\n",
     "GREEK_MU", "MODIFIER_APOSTROPHE", "NO_BREAK_SPACE", "FULLWIDTH_THREE",
     "FULLWIDTH_AT", "PRIVATE_USE"}

InitName ==
    /\ sql = None
    /\ require_time_filter = FALSE
    /\ read_only = "absent"
    /\ database_name = None
    /\ table_name \in SeqsUpTo(NameChars, MaxNameLen)
    /\ op = "none"
    /\ tokenizer = "unused"
    /\ result = NoResult
    /\ ExecIdle
    /\ BuilderIdle
    /\ ConcurrentIdle
    /\ DialectIdle

CallIsNameNormalized ==
    /\ op = "none"
    /\ table_name # None
    /\ result' = [normalized |-> is_name_normalized(table_name)]
    /\ op' = "_is_name_normalized"
    /\ UNCHANGED <<Args, Builder, Concurrent, Exec, tokenizer>>

CallNormalizeName ==
    /\ op = "none"
    /\ table_name # None
    /\ result' = [name |-> normalize_name(table_name)]
    /\ op' = "_normalize_name"
    /\ UNCHANGED <<Args, Builder, Concurrent, Exec, tokenizer>>

NextName ==
    \/ CallIsNameNormalized
    \/ CallNormalizeName

SpecName == InitName /\ [][NextName]_vars

-----------------------------------------------------------------------------
(* Claims about the name normalizer. *)

\* s matches ^[A-Za-z_-][A-Za-z0-9_-]*$ as Python's re matches it: k
\* characters of the classes, then the end of s or one final newline
PatternMatches(s) ==
    \E k \in 1..Len(s) :
        /\ k = Len(s) \/ (k = Len(s) - 1 /\ s[Len(s)] = "\n")
        /\ s[1] \in LowerLetters \cup UpperLetters \cup {"_", "-"}
        /\ \A i \in 2..k : s[i] \in LowerLetters \cup UpperLetters \cup Digits \cup {"_", "-"}

\* C11: the output of _normalize_name always matches
\* ^[A-Za-z_-][A-Za-z0-9_-]*$ (it is non-empty and does not start with a digit).
C11_OutputIsNormalized ==
    op = "_normalize_name" => PatternMatches(result.name)

\* C12: for every s matching ^[A-Za-z_-][A-Za-z0-9_-]*$, _is_name_normalized(s)
\* is true and _normalize_name(s) = s; for every other s, _is_name_normalized(s)
\* is false.
C12_IdentityOnNormalized ==
    /\ op = "_is_name_normalized" => (result.normalized <=> PatternMatches(table_name))
    /\ (op = "_normalize_name" /\ PatternMatches(table_name)) => result.name = table_name

\* a normalized name of three characters with a digit and a hyphen, returned as it is
C12_Witness ==
    /\ op = "_normalize_name"
    /\ table_name = <<"Z", "2", "-">>
    /\ result.name = table_name

\* the image of the character at position k (from 1) of s; blank is what a
\* character above 127 gives when its transliteration is an apostrophe or a space
Image(s, k, blank) ==
    LET c == s[k]
    IN  CASE c \in LowerLetters \cup UpperLetters \cup {"_", "-"} -> <<c>>
          [] c \in Digits -> IF k = 1 THEN number_to_word[c] \o <<"_">> ELSE <<c>>
          [] c \in DOMAIN transliterate_chars ->
                (IF k = 1 THEN <<>> ELSE <<"_">>) \o transliterate_chars[c]
                \o (IF k = Len(s) THEN <<>> ELSE <<"_">>)
          [] c \in DOMAIN anyascii /\ anyascii[c] \in {<<"'">>, <<" ">>} -> blank
          [] c \in DOMAIN anyascii /\ anyascii[c] \notin {<<>>, <<"'">>, <<" ">>} -> anyascii[c]
          [] OTHER -> <<"_">>

\* the images of the first k characters of s, concatenated left to right
RECURSIVE Images(_, _, _)
Images(s, k, blank) ==
    IF k = 0 THEN <<>> ELSE Images(s, k - 1, blank) \o Image(s, k, blank)

IsAsciiName(s) == \A i \in 1..Len(s) : s[i] \notin DOMAIN anyascii

\* C13: for every ASCII input that is not already normalized, _normalize_name
\* is the left-to-right concatenation of the per-character images: letters,
\* '_' and '-' map to themselves, a digit maps to itself except at position 0
\* (its English word and '_'), a symbol of the table maps to its word with
\* '_' before it unless first and '_' after it unless last, any other
\* character maps to '_'.
C13_PerCharacterImages ==
    (/\ op = "_normalize_name"
     /\ IsAsciiName(table_name)
     /\ ~PatternMatches(table_name)) => result.name = Images(table_name, Len(table_name), <<"_">>)

\* a leading digit, a letter and a trailing symbol: 2a@ gives two_a_at_sign
C13_Witness ==
    /\ op = "_normalize_name"
    /\ table_name = <<"2", "a", "@">>
    /\ result.name = <<"t", "w", "o", "_", "a", "_">> \o AtSign

HasNonAscii(s) == \E i \in 1..Len(s) : s[i] \in DOMAIN anyascii

\* C14 (as amended): a character above codepoint 127 is replaced by its ASCII
\* transliteration; when the transliteration is an apostrophe, a space or
\* empty, the character is replaced by a single '_'.
C14_TransliterationOrUnderscore ==
    (op = "_normalize_name" /\ HasNonAscii(table_name)) =>
        result.name = Images(table_name, Len(table_name), <<"_">>)

\* a letter, the modifier apostrophe, a letter: the apostrophe becomes '_'
C14_Witness ==
    /\ op = "_normalize_name"
    /\ table_name = <<"a", "MODIFIER_APOSTROPHE", "Z">>
    /\ result.name = <<"a", "_", "Z">>

\* C14 (as stated): a character whose transliteration is an apostrophe or a
\* space is dropped: it contributes nothing to the output.
C14_AsStated ==
    (op = "_normalize_name" /\ HasNonAscii(table_name)) =>
        result.name = Images(table_name, Len(table_name), <<>>)


(***************************************************************************)
(* The two reserved-word rewriters called on their own: the specification  *)
(* SpecWrap.  The projection is any short text over WrapAtoms; WrapSamples *)
(* adds longer queries: a function call, a column whose name ends in       *)
(* "from", literals and quoted identifiers of several words, a subquery,   *)
(* a second statement, a text that is no SQL and the empty text.           *)
(***************************************************************************)
MaxProjLen == 3

WrapAtoms == {"Account", "order", "_id", "(", " ", "'", "\"", BackTick}

WrapSamples ==
    {Select(<<"Account", ",", " ", "valid_", "from">>, <<"t">>, <<>>),
     Select(<<"count", "(", "distinct", " ", "Account", ")">>, <<"t">>, <<>>),
     Select(<<"'", "x", " ", "Account", "'">>, <<"t">>, <<>>),
     Select(<<"\"", "x", " ", "Account", "\"">>, <<"t">>, <<>>),
     Select(<<BackTick, "x", " ", "Account", BackTick>>, <<"t">>, <<>>),
     Select(<<"x">>, <<"(">> \o Select(<<"account">>, <<"t">>, <<>>) \o <<")">>,
            <<" ", "WHERE", " ", "Account", " ", "=", " ", "x">>),
     Select(<<"Account">>, <<"t">>,
            <<" ", "WHERE", " ", "x", " ", "=", " ", "'", "table", "'">>),
     Select(<<"x">>, <<"t">>, <<";", " ">>) \o Select(<<"Account">>, <<"t">>, <<>>),
     <<"x", " ", "x", "(">>,
     <<>>}

WrapSqls ==
    {Select(p, <<"t">>, <<>>) : p \in SeqsUpTo(WrapAtoms, MaxProjLen)} \cup WrapSamples

InitWrap ==
    /\ sql \in WrapSqls
    /\ require_time_filter = FALSE
    /\ read_only = "absent"
    /\ database_name = None
    /\ table_name = None
    /\ op = "none"
    /\ tokenizer = "unused"
    /\ result = NoResult
    /\ ExecIdle
    /\ BuilderIdle
    /\ ConcurrentIdle
    /\ DialectIdle

\* _validate_and_wrap_reserved_words(sql) returns the tuple (sql, error)
CallValidateAndWrapReservedWords ==
    /\ op = "none"
    /\ sql # None
    /\ \E out \in validate_and_wrap_reserved_words(sql) : result' = out
    /\ op' = "_validate_and_wrap_reserved_words"
    /\ UNCHANGED <<Args, Builder, Concurrent, Exec, tokenizer>>

\* wrap_reserved_words(sql) returns the rewritten text
CallWrapReservedWords ==
    /\ op = "none"
    /\ sql # None
    /\ \E parse \in ParseOutcomes :
        /\ tokenizer' = parse
        /\ result' = [sql |-> wrap_reserved_words(sql, parse)]
    /\ op' = "wrap_reserved_words"
    /\ UNCHANGED <<Args, Builder, Concurrent, Exec>>

NextWrap ==
    \/ CallValidateAndWrapReservedWords
    \/ CallWrapReservedWords

SpecWrap == InitWrap /\ [][NextWrap]_vars

HasForbiddenWord(s) ==
    \E k \in 1..Len(s) :
        \E W \in SCALAR_EXPRESSION_FORBIDDEN \cup COLUMN_NAME_FORBIDDEN : IsTokenAt(s, k, W)

HasQuote(s) == \E k \in 1..Len(s) : s[k] \in {"'", "\"", BackTick}

\* position k lies between a SELECT and the FROM that follows it
InProjection(s, k) ==
    /\ ~IsTokenAt(s, k, "FROM")
    /\ \E i \in 1..(k - 1) :
        /\ IsTokenAt(s, i, "SELECT")
        /\ \A n \in (i + 1)..k : ~IsTokenAt(s, n, "FROM")
    /\ \E f \in (k + 1)..Len(s) : IsTokenAt(s, f, "FROM")

\* the atom at k is followed, after optional whitespace, by '('
FollowedByParen(s, k) ==
    \E n \in (k + 1)..Len(s) :
        s[n] = "(" /\ \A m \in (k + 1)..(n - 1) : IsSpace(s[m])

\* the atom at k touches a word atom: it is part of a longer identifier
PartOfLongerIdentifier(s, k) ==
    \/ k > 1 /\ IsWord(s[k - 1])
    \/ k < Len(s) /\ IsWord(s[k + 1])

\* a standalone column-context word that is not the name of a function call
BareColumnWord(s, k) ==
    /\ \E W \in column_context_words : IsTokenAt(s, k, W)
    /\ ~FollowedByParen(s, k)

\* the text with every bare column-context word of a projection between
\* double quotes, everything else as it is
RECURSIVE QuotedProjections(_, _)
QuotedProjections(s, k) ==
    IF k > Len(s) THEN <<>>
    ELSE (IF InProjection(s, k) /\ BareColumnWord(s, k)
          THEN <<"\"", s[k], "\"">> ELSE <<s[k]>>)
         \o QuotedProjections(s, k + 1)

\* C15 (as stated): for a query with no forbidden word the rewriter returns
\* (sql', None), where sql' is the query with every bare standalone
\* column-context word of a projection between SELECT and the following FROM
\* wrapped in double quotes, original case kept, and everything else
\* unchanged.  Queries with quote characters are left to C18.
C15_QuotesEveryBareColumnWord ==
    (/\ op = "_validate_and_wrap_reserved_words"
     /\ ~HasForbiddenWord(sql)
     /\ ~HasQuote(sql)) =>
        result = [sql |-> QuotedProjections(sql, 1), error |-> None]


\* C16: rewriting is idempotent.  Rewriting the text that
\* _validate_and_wrap_reserved_words returned gives the same text and no
\* error, and wrap_reserved_words applied to its own output returns it
\* unchanged: a token that is already quoted is not quoted again.
C16_RewritingIsIdempotent ==
    /\ (op = "_validate_and_wrap_reserved_words" /\ result.error = None) =>
           validate_and_wrap_reserved_words(result.sql)
               = {[sql |-> result.sql, error |-> None]}
    /\ op = "wrap_reserved_words" =>
           \A parse \in (IF tokenizer = "ok" THEN ParseOutcomes ELSE {tokenizer}) :
               wrap_reserved_words(result.sql, parse) = result.sql

\* SELECT Account FROM t was rewritten to SELECT "Account" FROM t, which the
\* rewriter leaves as it is
C16_Witness ==
    /\ op = "_validate_and_wrap_reserved_words"
    /\ sql = Select(<<"Account">>, <<"t">>, <<>>)
    /\ result.sql = Select(<<"\"", "Account", "\"">>, <<"t">>, <<>>)
    /\ validate_and_wrap_reserved_words(result.sql) = {result}


\* the text s with the atoms at the positions of Q between double quotes
RECURSIVE QuoteAt(_, _, _)
QuoteAt(s, Q, k) ==
    IF k > Len(s) THEN <<>>
    ELSE (IF k \in Q THEN <<"\"", s[k], "\"">> ELSE <<s[k]>>) \o QuoteAt(s, Q, k + 1)

\* the column-context words of s that are neither followed by '(' nor part
\* of a longer identifier
QuotingCandidates(s) ==
    {k \in 1..Len(s) :
        /\ UpperAtom(s[k]) \in column_context_words
        /\ ~FollowedByParen(s, k)
        /\ ~PartOfLongerIdentifier(s, k)}

\* C17: the rewriter never quotes a reserved word that is followed, after
\* optional whitespace, by '(' (a function call), nor one that is only part
\* of a longer identifier such as Account_id: the returned text is the query
\* with quotes added around other words only.
C17_CallsAndLongerIdentifiersUnquoted ==
    op = "_validate_and_wrap_reserved_words" =>
        \E Q \in SUBSET QuotingCandidates(sql) : result.sql = QuoteAt(sql, Q, 1)

\* SELECT Account(Account FROM t: the function name stays, the argument is
\* quoted
C17_Witness ==
    /\ op = "_validate_and_wrap_reserved_words"
    /\ sql = Select(<<"Account", "(", "Account">>, <<"t">>, <<>>)
    /\ result.sql = Select(<<"Account", "(", "\"", "Account", "\"">>, <<"t">>, <<>>)


\* the positions of the single-quoted literals and of the double-quoted and
\* backtick-quoted identifiers of s, quote characters included
RECURSIVE QuotedPositions(_, _)
QuotedPositions(s, i) ==
    IF i > Len(s) THEN {}
    ELSE IF s[i] \in {"'", "\"", BackTick} /\ ClosingQuote(s, i) # 0
         THEN (i..ClosingQuote(s, i)) \cup QuotedPositions(s, ClosingQuote(s, i) + 1)
    ELSE QuotedPositions(s, i + 1)

UnquotedColumnWords(s) ==
    {k \in 1..Len(s) : UpperAtom(s[k]) \in column_context_words}
        \ QuotedPositions(s, 1)

\* C18 (as stated): string literals and already-quoted identifiers are left
\* untouched.  The content of every single-quoted literal and of every
\* double-quoted or backtick-quoted identifier is the same in the returned
\* text, also when it holds a quotable reserved word among other words: the
\* returned text is the query with quotes added outside of them only.
C18_QuotedTextUntouched ==
    (op = "_validate_and_wrap_reserved_words" /\ result.error = None) =>
        \E Q \in SUBSET UnquotedColumnWords(sql) : result.sql = QuoteAt(sql, Q, 1)


(***************************************************************************)
(* The forbidden-word checks of _validate_and_wrap_reserved_words: the     *)
(* specification SpecForbidden.  The projection is any short text over     *)
(* ForbiddenAtoms; the rest of the query is a table, a table with a        *)
(* boolean comparison in WHERE, or a table and an ORDER ... END tail.      *)
(***************************************************************************)
MaxForbiddenLen == 3

ForbiddenAtoms == {"FALSE", "case", "current_user", "x", "(", ",", " ", "'"}

ForbiddenTails ==
    {<<>>,
     <<" ", "WHERE", " ", "x", " ", "=", " ", "true">>,
     <<" ", "order", " ", "END">>}

ForbiddenSqls ==
    {Select(p, <<"t">>, w) :
        p \in SeqsUpTo(ForbiddenAtoms, MaxForbiddenLen), w \in ForbiddenTails}

InitForbidden ==
    /\ sql \in ForbiddenSqls
    /\ require_time_filter = FALSE
    /\ read_only = "absent"
    /\ database_name = None
    /\ table_name = None
    /\ op = "none"
    /\ tokenizer = "unused"
    /\ result = NoResult
    /\ ExecIdle
    /\ BuilderIdle
    /\ ConcurrentIdle
    /\ DialectIdle

NextForbidden == CallValidateAndWrapReservedWords

SpecForbidden == InitForbidden /\ [][NextForbidden]_vars

ForbiddenWords == SCALAR_EXPRESSION_FORBIDDEN \cup COLUMN_NAME_FORBIDDEN

\* the positions of the single-quoted literals of s
RECURSIVE LiteralPositions(_, _)
LiteralPositions(s, i) ==
    IF i > Len(s) THEN {}
    ELSE IF s[i] = "'" /\ ClosingQuote(s, i) # 0
         THEN (i..ClosingQuote(s, i)) \cup LiteralPositions(s, ClosingQuote(s, i) + 1)
    ELSE LiteralPositions(s, i + 1)

\* the forbidden word W stands at k as a column reference of a projection:
\* not a function call, not inside a string literal
ColumnReferenceAt(s, k, W) ==
    /\ IsTokenAt(s, k, W)
    /\ InProjection(s, k)
    /\ ~FollowedByParen(s, k)
    /\ k \notin LiteralPositions(s, 1)

ReferencedForbidden(s) ==
    {W \in ForbiddenWords : \E k \in 1..Len(s) : ColumnReferenceAt(s, k, W)}

OccurringForbidden(s) ==
    {W \in ForbiddenWords : \E k \in 1..Len(s) : IsTokenAt(s, k, W)}

ForbiddenMsg(W) ==
    IF W \in SCALAR_EXPRESSION_FORBIDDEN THEN ScalarForbiddenMsg(W)
    ELSE ColumnForbiddenMsg(W)

\* C19 (as stated): when the projection references a forbidden word as a
\* bare column, the rewriter returns the original query and an error that
\* names a forbidden word of the query, says 'cannot be used as column
\* reference in scalar expressions' or 'cannot be used as column name
\* (reserved by ANSI)' and lists the whole forbidden set; the scalar message
\* is the one returned when a scalar-forbidden word is referenced.
C19_ForbiddenColumnIsAnError ==
    (op = "_validate_and_wrap_reserved_words" /\ ReferencedForbidden(sql) # {}) =>
        /\ result.sql = sql
        /\ \E W \in OccurringForbidden(sql) : result.error = ForbiddenMsg(W)
        /\ ReferencedForbidden(sql) \cap SCALAR_EXPRESSION_FORBIDDEN # {} =>
               \E W \in SCALAR_EXPRESSION_FORBIDDEN : result.error = ScalarForbiddenMsg(W)

\* C20 (as stated): the forbidden-word checks fire only for a column
\* reference.  A query whose forbidden words all stand outside the
\* projection, before a '(' or inside a string literal is not rejected.
C20_OnlyColumnReferencesRejected ==
    (op = "_validate_and_wrap_reserved_words" /\ ReferencedForbidden(sql) = {}) =>
        result.error = None


(***************************************************************************)
(* CASE expressions in the projection: the specification SpecCase.  A CASE *)
(* expression has up to MaxWhens branches WHEN condition THEN value and an *)
(* optional ELSE; conditions and values are a column, a reserved word, or  *)
(* a text with a comma in it (an IN list, a call with two arguments).      *)
(***************************************************************************)
MaxWhens == 1

CaseConditions ==
    {<<"x">>, <<"Account">>, <<"x", " ", "IN", " ", "(", "x", ",", " ", "x", ")">>}

CaseValues == {<<"x">>, <<"Account">>, <<"count", "(", "x", ",", " ", "x", ")">>}

\* n times WHEN condition THEN value
RECURSIVE WhenBranches(_)
WhenBranches(n) ==
    IF n = 0 THEN {<<>>}
    ELSE {<<" ", "WHEN", " ">> \o c \o <<" ", "THEN", " ">> \o v \o rest :
            c \in CaseConditions, v \in CaseValues, rest \in WhenBranches(n - 1)}

CaseExpressions ==
    {<<"CASE">> \o b \o e \o <<" ", "END">> :
        b \in UNION {WhenBranches(n) : n \in 1..MaxWhens},
        e \in {<<>>} \cup {<<" ", "ELSE", " ">> \o v : v \in {<<"x">>, <<"Account">>}}}

\* the queries whose CASE and WHEN all belong to a well-formed expression
WellFormedCaseSqls ==
    {Select(pre \o e \o post, <<"t">>, <<>>) :
        pre \in {<<>>, <<"x", ",", " ">>},
        e \in CaseExpressions,
        post \in {<<>>, <<",", " ", "Account">>}}

\* the queries that list a bare CASE or WHEN as a column
BareCaseSqls ==
    {Select(p, <<"t">>, <<>>) :
        p \in {<<"case">>, <<"WHEN">>, <<"x", ",", " ", "WHEN">>,
               <<"case", ",", " ", "x">>, <<"Account", ",", " ", "case">>}}

InitCase ==
    /\ sql \in WellFormedCaseSqls \cup BareCaseSqls
    /\ require_time_filter = FALSE
    /\ read_only = "absent"
    /\ database_name = None
    /\ table_name = None
    /\ op = "none"
    /\ tokenizer = "unused"
    /\ result = NoResult
    /\ ExecIdle
    /\ BuilderIdle
    /\ ConcurrentIdle
    /\ DialectIdle

NextCase == CallValidateAndWrapReservedWords

SpecCase == InitCase /\ [][NextCase]_vars

\* C21 (as stated): CASE and WHEN are rejected only as bare column
\* references.  A query whose CASE and WHEN all belong to a well-formed CASE
\* WHEN ... THEN ... ELSE ... END expression passes the forbidden-scalar
\* check, with the reserved words inside the expression quoted; a query that
\* lists a bare CASE or WHEN as a column is rejected with the
\* scalar-expression error.
C21_CaseOnlyRejectedAsColumn ==
    op = "_validate_and_wrap_reserved_words" =>
        /\ sql \in WellFormedCaseSqls =>
               result = [sql |-> QuotedProjections(sql, 1), error |-> None]
        /\ sql \in BareCaseSqls =>
               /\ result.sql = sql
               /\ result.error \in {ScalarForbiddenMsg("CASE"), ScalarForbiddenMsg("WHEN")}


IsText(s) == DOMAIN s = 1..Len(s)

\* C22: wrap_reserved_words is fail-open and total.  For every text, the
\* empty one and malformed SQL included, it returns a text and raises
\* nothing; when its parsing fails the returned text is the argument itself.
C22_WrapIsFailOpen ==
    op = "wrap_reserved_words" =>
        /\ DOMAIN result = {"sql"}
        /\ IsText(result.sql)
        /\ (tokenizer \in {"raise", "empty"} \/ sql = <<>>) => result.sql = sql

\* the parser raises on a query with a reserved literal: the query comes
\* back as it is
C22_Witness ==
    /\ op = "wrap_reserved_words"
    /\ tokenizer = "raise"
    /\ sql = Select(<<"Account">>, <<"t">>,
                    <<" ", "WHERE", " ", "x", " ", "=", " ", "'", "table", "'">>)
    /\ result.sql = sql


\* the single-quoted literals of s whose content is one reserved word of
\* sql_validation.py: the positions of their opening quotes
RECURSIVE ReservedLiterals(_, _)
ReservedLiterals(s, i) ==
    IF i > Len(s) THEN {}
    ELSE IF s[i] \in {"'", "\"", BackTick} /\ ClosingQuote(s, i) # 0
         THEN (IF s[i] = "'" /\ ClosingQuote(s, i) = i + 2
                  /\ UpperAtom(s[i + 1]) \in SNOWFLAKE_RESERVED_WORDS
               THEN {i} ELSE {})
              \cup ReservedLiterals(s, ClosingQuote(s, i) + 1)
    ELSE ReservedLiterals(s, i + 1)

\* s with the quotes of the literals that open at the positions of L
\* replaced by double quotes
Requoted(s, L) ==
    [k \in 1..Len(s) |-> IF k \in L \/ (k - 2) \in L THEN "\"" ELSE s[k]]

\* C29 (as stated): wrap_reserved_words changes nothing but single-quoted
\* literals that are reserved words.  For every input of one or several
\* statements that is parsed, the output is the input with each such literal
\* between double quotes; every other token, every statement after the first
\* included, is in the output unchanged and in order.
C29_OnlyReservedLiteralsChange ==
    (op = "wrap_reserved_words" /\ tokenizer = "ok") =>
        result.sql = Requoted(sql, ReservedLiterals(sql, 1))


(***************************************************************************)
(* Safe queries through validate_sql_comprehensive and through the         *)
(* validator of saved queries (saved_queries.py): the specification        *)
(* SpecSaved.  A safe query is one to MaxStatements statements, each a     *)
(* SELECT from a fully qualified table with a time macro in WHERE and no   *)
(* reserved word as an identifier.                                         *)
(***************************************************************************)
MaxStatements == 2

SafeStatements ==
    {Select(c, <<"panther_logs", ".", "public", ".", "t">>,
            <<" ", "WHERE", " ", mac, "(", "'", "x", "'", ")">>) :
        c \in {<<"*">>, <<"x">>}, mac \in {"p_occurs_since", "P_OCCURS_SINCE"}}

\* n statements, each but the last followed by "; "
RECURSIVE StatementLists(_)
StatementLists(n) ==
    IF n = 1 THEN SafeStatements
    ELSE {s \o <<";", " ">> \o rest : s \in SafeStatements, rest \in StatementLists(n - 1)}

SafeSqls ==
    {q \o e : q \in UNION {StatementLists(n) : n \in 1..MaxStatements},
              e \in {<<>>, <<";">>, <<";", "\n">>}}

\* queries that are not safe: no time filter, a reserved word in a literal
UnsafeSqls ==
    {<<>>,
     Select(<<"x">>, <<"panther_logs", ".", "public", ".", "t">>, <<>>),
     Select(<<"x">>, <<"panther_logs", ".", "public", ".", "t">>,
            <<" ", "WHERE", " ", "p_occurs_since", "(", "'", "table", "'", ")">>)}

ValueError(message) == [raised |-> "ValueError", message |-> message]

\* _validate_sql_query(v) of saved_queries.py: the validated text, or the
\* exception that leaves the function
validate_sql_query(v, parse) ==
    IF Blank(v) THEN ValueError(<<"SQL query cannot be empty">>)
    ELSE LET sql_validation ==
                 validate_sql_comprehensive(Strip(v), TRUE, "True", None, parse)
         IN  IF sql_validation = TypeError THEN TypeError
             ELSE IF ~sql_validation.valid THEN ValueError(sql_validation.error)
             ELSE [sql |-> sql_validation.processed_sql]

InitSaved ==
    /\ sql \in SafeSqls \cup UnsafeSqls
    /\ require_time_filter \in BOOLEAN
    /\ read_only = "absent"
    /\ database_name \in {None, <<"panther_logs", ".", "public">>}
    /\ table_name = None
    /\ op = "none"
    /\ tokenizer = "unused"
    /\ result = NoResult
    /\ ExecIdle
    /\ BuilderIdle
    /\ ConcurrentIdle
    /\ DialectIdle

CallValidateSqlQuery ==
    /\ op = "none"
    /\ \E parse \in ParseOutcomes :
        /\ tokenizer' = "unused"
        /\ result' = validate_sql_query(sql, parse)
    /\ op' = "_validate_sql_query"
    /\ UNCHANGED <<Args, Builder, Concurrent, Exec>>

NextSaved ==
    \/ CallValidateSqlComprehensive
    \/ CallValidateSqlQuery

SpecSaved == InitSaved /\ [][NextSaved]_vars

\* C23 (as stated): round trip on safe queries.  Every query with a valid
\* time macro and only non-reserved, fully qualified identifiers is accepted
\* by validate_sql_comprehensive with processed_sql equal to the input, so
\* the validator of saved queries hands the query on unchanged.
C23_SafeQueriesPassUnchanged ==
    /\ (op = "validate_sql_comprehensive" /\ sql \in SafeSqls /\ tokenizer = "ok") =>
           /\ result # TypeError
           /\ result.valid
           /\ result.processed_sql = sql
    /\ (op = "_validate_sql_query" /\ sql \in SafeSqls) => result = [sql |-> Strip(sql)]


(***************************************************************************)
(* The dialect adapter.  Its functions (get_datastore_type,                *)
(* format_database_reference, _convert_database_references_in_sql,         *)
(* get_dateadd_function) are imported by the tests of data_lake.py and are *)
(* not defined in the sources at hand: they are modelled from the design   *)
(* document (sections 3 and 4.5) and from the expectations of the tests.   *)
(* The value of PANTHER_DATASTORE_TYPE is a text in pieces of a few        *)
(* letters, so that every mix of cases of a name can be written.           *)
(***************************************************************************)
MaxEnvLen == 2

SNOWFLAKE == "snowflake"

REDSHIFT == "redshift"

DatastoreType == {SNOWFLAKE, REDSHIFT}

\* the setting taken as the other dialect unless it is spelled in lower case
get_datastore_type_CaseSensitive(env) ==
    IF env = <<"red", "shift">> THEN REDSHIFT ELSE SNOWFLAKE

\* os.environ.get("PANTHER_DATASTORE_TYPE"), lower-cased and compared
get_datastore_type(env) ==
    IF env # None /\ Lower(env) = <<"red", "shift">> THEN REDSHIFT ELSE SNOWFLAKE

EnvPieces ==
    {"red", "RED", "Red", "shift", "SHIFT", "Shift", "snow", "Snow", "FLAKE", "x"}

InitDatastore ==
    /\ sql = None
    /\ require_time_filter = FALSE
    /\ read_only = "absent"
    /\ database_name = None
    /\ table_name = None
    /\ op = "none"
    /\ tokenizer = "unused"
    /\ result = NoResult
    /\ ExecIdle
    /\ BuilderIdle
    /\ ConcurrentIdle
    /\ PANTHER_DATASTORE_TYPE \in {None} \cup SeqsUpTo(EnvPieces, MaxEnvLen)
    /\ unit = None
    /\ amount = 0
    /\ base_expr = None

CallGetDatastoreType ==
    /\ op = "none"
    /\ result' = [datastore_type |-> get_datastore_type(PANTHER_DATASTORE_TYPE)]
    /\ op' = "get_datastore_type"
    /\ UNCHANGED <<Args, Builder, Concurrent, Exec, tokenizer>>

NextDatastore == CallGetDatastoreType

SpecDatastore == InitDatastore /\ [][NextDatastore]_vars

\* the setting spells the word made of the two pieces, in any mix of cases
Spells(env, first, second) ==
    /\ env # None
    /\ Len(env) = 2
    /\ LowerAtom(env[1]) = first
    /\ LowerAtom(env[2]) = second

\* C24: get_datastore_type resolves the dialect from PANTHER_DATASTORE_TYPE
\* without regard to case: any casing of 'redshift' gives REDSHIFT, any
\* casing of 'snowflake' gives SNOWFLAKE, an absent or unrecognized value
\* gives SNOWFLAKE, and the result is always one of the two values.
C24_DatastoreTypeIgnoresCase ==
    op = "get_datastore_type" =>
        /\ result.datastore_type \in DatastoreType
        /\ Spells(PANTHER_DATASTORE_TYPE, "red", "shift") =>
               result.datastore_type = REDSHIFT
        /\ ~Spells(PANTHER_DATASTORE_TYPE, "red", "shift") =>
               result.datastore_type = SNOWFLAKE

\* the setting ReDSHIFT, written Red SHIFT, selects Redshift
C24_Witness ==
    /\ op = "get_datastore_type"
    /\ PANTHER_DATASTORE_TYPE = <<"Red", "SHIFT">>
    /\ result.datastore_type = REDSHIFT


(***************************************************************************)
(* The '.public' rule of the dialect adapter: the specification            *)
(* SpecDialect.  Snowflake keeps the schema qualifier, Redshift strips it  *)
(* from a database name and from every db.public.table reference of a      *)
(* query.                                                                  *)
(***************************************************************************)
MaxRefLen == 5

EndsWithPublic(name) ==
    Len(name) >= 2 /\ name[Len(name) - 1] = "." /\ name[Len(name)] = "public"

\* the suffix stripped whatever the dialect
format_database_reference_AnyDialect(name, env) ==
    IF EndsWithPublic(name) THEN SubSeq(name, 1, Len(name) - 2) ELSE name

format_database_reference(name, env) ==
    IF get_datastore_type(env) = REDSHIFT /\ EndsWithPublic(name)
    THEN SubSeq(name, 1, Len(name) - 2)
    ELSE name

\* a reference db.public.table starts with the identifier that ends at i
PublicReferenceAt(s, i) ==
    /\ i + 4 <= Len(s)
    /\ IsWord(s[i])
    /\ s[i + 1] = "."
    /\ s[i + 2] = "public"
    /\ s[i + 3] = "."
    /\ IsWord(s[i + 4])

\* the last atom of the identifier that starts at i
RECURSIVE IdentifierEnd(_, _)
IdentifierEnd(s, i) ==
    IF i < Len(s) /\ IsWord(s[i + 1]) THEN IdentifierEnd(s, i + 1) ELSE i

\* every db.public.table found from left to right becomes db.table; the
\* search goes on after the table name
RECURSIVE ConvertFrom(_, _)
ConvertFrom(s, i) ==
    IF i > Len(s) THEN <<>>
    ELSE IF PublicReferenceAt(s, i)
         THEN <<s[i], ".">> \o SubSeq(s, i + 4, IdentifierEnd(s, i + 4))
              \o ConvertFrom(s, IdentifierEnd(s, i + 4) + 1)
    ELSE <<s[i]>> \o ConvertFrom(s, i + 1)

convert_database_references_in_sql(s, env) ==
    IF get_datastore_type(env) = REDSHIFT THEN ConvertFrom(s, 1) ELSE s

RefAtoms == {"panther_logs", ".", "public", "t"}

DialectSettings == {None, <<"snow", "flake">>, <<"Red", "SHIFT">>}

DialectNames ==
    {<<"panther_logs", ".", "public">>, <<"panther_logs">>,
     <<"custom_db", ".", "public">>, <<"custom_db", ".", "public", ".", "public">>}

DialectSqls ==
    {Select(<<"*">>, r, <<>>) : r \in SeqsUpTo(RefAtoms, MaxRefLen)}
    \cup {Select(<<"*">>, <<"panther_logs", ".", "public", ".", "public", ".", "t">>, <<>>),
          Select(<<"*">>, <<"panther_logs", ".", "public", ".", "t">>,
                 <<" ", "WHERE", " ", "p_event_time", " ", ">", "=", " ", "x">>)}

InitDialect ==
    /\ sql \in DialectSqls
    /\ require_time_filter = FALSE
    /\ read_only = "absent"
    /\ database_name \in DialectNames
    /\ table_name = None
    /\ op = "none"
    /\ tokenizer = "unused"
    /\ result = NoResult
    /\ ExecIdle
    /\ BuilderIdle
    /\ ConcurrentIdle
    /\ PANTHER_DATASTORE_TYPE \in DialectSettings
    /\ unit = None
    /\ amount = 0
    /\ base_expr = None

CallFormatDatabaseReference ==
    /\ op = "none"
    /\ result' = [name |-> format_database_reference(database_name, PANTHER_DATASTORE_TYPE)]
    /\ op' = "format_database_reference"
    /\ UNCHANGED <<Args, Builder, Concurrent, Exec, tokenizer>>

CallConvertDatabaseReferencesInSql ==
    /\ op = "none"
    /\ result' = [sql |-> convert_database_references_in_sql(sql, PANTHER_DATASTORE_TYPE)]
    /\ op' = "_convert_database_references_in_sql"
    /\ UNCHANGED <<Args, Builder, Concurrent, Exec, tokenizer>>

NextDialect ==
    \/ CallFormatDatabaseReference
    \/ CallConvertDatabaseReferencesInSql

SpecDialect == InitDialect /\ [][NextDialect]_vars

Dialect == get_datastore_type(PANTHER_DATASTORE_TYPE)

\* the number of '.public' in a text
PublicCount(s) ==
    Cardinality({k \in 2..Len(s) : s[k] = "public" /\ s[k - 1] = "."})

\* s without the '.public' of its db.public.table reference, when it has one
WithoutPublic(s) ==
    IF \E k \in 1..Len(s) : PublicReferenceAt(s, k)
    THEN LET k == CHOOSE k \in 1..Len(s) : PublicReferenceAt(s, k)
         IN  SubSeq(s, 1, k) \o SubSeq(s, k + 3, Len(s))
    ELSE s

\* what the claim says of one application, whatever the input
PublicRuleOnce ==
    /\ op = "format_database_reference" =>
        /\ Dialect = SNOWFLAKE => result.name = database_name
        /\ Dialect = REDSHIFT =>
               result.name = IF EndsWithPublic(database_name)
                             THEN SubSeq(database_name, 1, Len(database_name) - 2)
                             ELSE database_name
    /\ op = "_convert_database_references_in_sql" =>
        /\ Dialect = SNOWFLAKE => result.sql = sql
        /\ (Dialect = REDSHIFT /\ PublicCount(sql) <= 1) => result.sql = WithoutPublic(sql)

\* a second application of the Redshift conversion changes nothing
SecondApplicationIsIdle ==
    /\ op = "format_database_reference" =>
           format_database_reference(result.name, PANTHER_DATASTORE_TYPE) = result.name
    /\ op = "_convert_database_references_in_sql" =>
           convert_database_references_in_sql(result.sql, PANTHER_DATASTORE_TYPE)
               = result.sql

MaxAmount == 12

\* the decimal digits of a natural number, as characters
RECURSIVE DecimalDigits(_)
DecimalDigits(n) ==
    LET digit == <<"0", "1", "2", "3", "4", "5", "6", "7", "8", "9">>[(n % 10) + 1]
    IN  IF n < 10 THEN <<digit>> ELSE DecimalDigits(n \div 10) \o <<digit>>

\* str(n) for an integer
IntText(n) == IF n < 0 THEN <<"-">> \o DecimalDigits(0 - n) ELSE DecimalDigits(n)

\* abs(n)
Abs(n) == IF n < 0 THEN 0 - n ELSE n

\* the Redshift interval written with the signed amount
get_dateadd_function_SignedInterval(u, n, base, env) ==
    IF get_datastore_type(env) = REDSHIFT
    THEN base \o <<" ", IF n < 0 THEN "-" ELSE "+", " ", "INTERVAL", " ", "'">>
              \o IntText(n) \o <<" ", u, "'">>
    ELSE <<"DATEADD", "(", u, ",", " ">> \o IntText(n) \o <<",", " ">> \o base \o <<")">>

get_dateadd_function(u, n, base, env) ==
    IF get_datastore_type(env) = REDSHIFT
    THEN base \o <<" ", IF n < 0 THEN "-" ELSE "+", " ", "INTERVAL", " ", "'">>
              \o IntText(Abs(n)) \o <<" ", u, "'">>
    ELSE <<"DATEADD", "(", u, ",", " ">> \o IntText(n) \o <<",", " ">> \o base \o <<")">>

InitDateadd ==
    /\ sql = None
    /\ require_time_filter = FALSE
    /\ read_only = "absent"
    /\ database_name = None
    /\ table_name = None
    /\ op = "none"
    /\ tokenizer = "unused"
    /\ result = NoResult
    /\ ExecIdle
    /\ BuilderIdle
    /\ ConcurrentIdle
    /\ PANTHER_DATASTORE_TYPE \in DialectSettings
    /\ unit \in {"day", "hour"}
    /\ amount \in (0 - MaxAmount)..MaxAmount
    /\ base_expr \in {<<"NOW", "(", ")">>, <<"GETDATE", "(", ")">>}

CallGetDateaddFunction ==
    /\ op = "none"
    /\ result' = [expression |->
                     get_dateadd_function(unit, amount, base_expr, PANTHER_DATASTORE_TYPE)]
    /\ op' = "get_dateadd_function"
    /\ UNCHANGED <<Args, Builder, Concurrent, Exec, tokenizer>>

NextDateadd == CallGetDateaddFunction

SpecDateadd == InitDateadd /\ [][NextDateadd]_vars

\* the digits of |amount|: no sign among them
Magnitude == DecimalDigits(IF amount < 0 THEN 0 - amount ELSE amount)

\* C26: get_dateadd_function(unit, amount, base) returns
\* 'DATEADD(unit, amount, base)' with the signed amount under Snowflake;
\* under Redshift it returns base - INTERVAL '|amount| unit' when amount is
\* negative and base + INTERVAL 'amount unit' otherwise: the magnitude of the
\* interval is the absolute value and only the operator carries the sign.
C26_DateaddPerDialect ==
    op = "get_dateadd_function" =>
        /\ Dialect = SNOWFLAKE =>
               result.expression =
                   <<"DATEADD", "(", unit, ",", " ">>
                   \o (IF amount < 0 THEN <<"-">> ELSE <<>>) \o Magnitude
                   \o <<",", " ">> \o base_expr \o <<")">>
        /\ Dialect = REDSHIFT =>
               result.expression =
                   base_expr
                   \o <<" ", IF amount < 0 THEN "-" ELSE "+", " ", "INTERVAL", " ", "'">>
                   \o Magnitude \o <<" ", unit, "'">>

\* Redshift, seven days back from GETDATE(): GETDATE() - INTERVAL '7 day'
C26_Witness ==
    /\ op = "get_dateadd_function"
    /\ Dialect = REDSHIFT
    /\ unit = "day" /\ amount = 0 - 7 /\ base_expr = <<"GETDATE", "(", ")">>
    /\ result.expression =
           <<"GETDATE", "(", ")", " ", "-", " ", "INTERVAL", " ", "'", "7", " ", "day", "'">>

-----------------------------------------------------------------------------
\* PermissionBuilder (permissions.py): the annotations of a tool are built by
\* chained calls on one builder object.

MaxCalls == 3

\* class Permission(Enum): the members used here and their values
PermissionValues ==
    [ALERT_READ |-> "View Alerts", RULE_READ |-> "View Rules",
     POLICY_READ |-> "View Policies"]

\* p if isinstance(p, str) else p.value: a member is written by its name, a
\* plain string is any other text
PermissionValue(p) ==
    IF p \in DOMAIN PermissionValues THEN PermissionValues[p] ELSE p

\* perms(any_of=..., all_of=...): one key per list given
perms(any_of, all_of) ==
    LET values(ps) == [i \in 1..Len(ps) |-> PermissionValue(ps[i])]
    IN  (IF any_of # None THEN [any_of |-> values(any_of)] ELSE <<>>)
        @@ (IF all_of # None THEN [all_of |-> values(all_of)] ELSE <<>>)

any_perms(permissions) == perms(permissions, None)

all_perms(permissions) == perms(None, permissions)

\* a dictionary with d[key] = value assigned
SetItem(d, key, value) == (key :> value) @@ d

require_Merging(d, permissions) ==
    IF "permissions" \in DOMAIN d /\ "all_of" \in DOMAIN d["permissions"]
    THEN SetItem(d, "permissions",
                 [all_of |-> d["permissions"].all_of \o all_perms(permissions).all_of])
    ELSE SetItem(d, "permissions", all_perms(permissions))

\* PermissionBuilder.require: self._annotations["permissions"] = all_perms(...)
require(d, permissions) == SetItem(d, "permissions", all_perms(permissions))

\* PermissionBuilder.require_any
require_any(d, permissions) == SetItem(d, "permissions", any_perms(permissions))

\* PermissionBuilder.with_annotation
with_annotation(d, key, value) == SetItem(d, key, value)

\* the argument lists of require and require_any: members, a plain string,
\* and no permission at all
PermissionLists ==
    {<<>>, <<"RULE_READ", "POLICY_READ">>, <<"ALERT_READ", "Run Panther AI">>}

AnnotationKeys == {"permissions", "rate_limit"}

AnnotationValues == {[requests |-> <<"100">>], [all_of |-> <<"View Users">>]}

InitBuilder ==
    /\ sql = None
    /\ require_time_filter = FALSE
    /\ read_only = "absent"
    /\ database_name = None
    /\ table_name = None
    /\ op = "none"
    /\ tokenizer = "unused"
    /\ result = NoResult
    /\ ExecIdle
    /\ DialectIdle
    /\ BuilderIdle
    /\ ConcurrentIdle

\* build() returns self._annotations itself, not a copy: a dictionary that
\* was returned earlier shows every later assignment
StillReturned(d) == IF result = NoResult THEN NoResult ELSE [annotations |-> d]

CallRequire ==
    /\ Len(calls) < MaxCalls
    /\ \E permissions \in PermissionLists :
          /\ annotations' = require(annotations, permissions)
          /\ calls' = Append(calls, [method |-> "require", permissions |-> permissions])
    /\ result' = StillReturned(annotations')
    /\ op' = "require"
    /\ UNCHANGED <<Args, Concurrent, Exec, tokenizer>>

CallRequireAny ==
    /\ Len(calls) < MaxCalls
    /\ \E permissions \in PermissionLists :
          /\ annotations' = require_any(annotations, permissions)
          /\ calls' = Append(calls, [method |-> "require_any", permissions |-> permissions])
    /\ result' = StillReturned(annotations')
    /\ op' = "require_any"
    /\ UNCHANGED <<Args, Concurrent, Exec, tokenizer>>

CallWithAnnotation ==
    /\ Len(calls) < MaxCalls
    /\ \E key \in AnnotationKeys, value \in AnnotationValues :
          /\ annotations' = with_annotation(annotations, key, value)
          /\ calls' = Append(calls, [method |-> "with_annotation",
                                     key |-> key, value |-> value])
    /\ result' = StillReturned(annotations')
    /\ op' = "with_annotation"
    /\ UNCHANGED <<Args, Concurrent, Exec, tokenizer>>

CallBuild ==
    /\ result' = [annotations |-> annotations]
    /\ op' = "build"
    /\ UNCHANGED <<Args, Builder, Concurrent, Exec, tokenizer>>

NextBuilder == CallRequire \/ CallRequireAny \/ CallWithAnnotation \/ CallBuild

SpecBuilder == InitBuilder /\ [][NextBuilder]_vars

\* the positions of the calls that satisfy P
CallsWhere(P(_)) == {i \in 1..Len(calls) : P(calls[i])}

Latest(S) == CHOOSE i \in S : \A j \in S : j <= i

IsRequirement(c) == c.method \in {"require", "require_any"}

\* what the requirement call c asks for, as a specification
SpecificationOf(c) ==
    LET values == [i \in 1..Len(c.permissions) |-> PermissionValue(c.permissions[i])]
    IN  IF c.method = "require" THEN [all_of |-> values] ELSE [any_of |-> values]

Annotates(key, c) == c.method = "with_annotation" /\ c.key = key

\* every key but 'permissions' holds the value of its latest with_annotation
OtherKeysHoldLatestValue ==
    \A key \in DOMAIN result.annotations \ {"permissions"} :
        LET S == {i \in 1..Len(calls) : Annotates(key, calls[i])}
        IN  S # {} /\ result.annotations[key] = calls[Latest(S)].value

\* C28, as stated: after any sequence of require, require_any and
\* with_annotation calls, the 'permissions' entry that build() returns is the
\* specification of the most recent require or require_any call, and every
\* other key holds the value of its most recent with_annotation.
C28_AsStated ==
    op = "build" =>
        LET S == CallsWhere(IsRequirement)
        IN  /\ S # {} =>
                  /\ "permissions" \in DOMAIN result.annotations
                  /\ result.annotations["permissions"] = SpecificationOf(calls[Latest(S)])
            /\ OtherKeysHoldLatestValue

WritesPermissions(c) == IsRequirement(c) \/ Annotates("permissions", c)

\* C28, amended: the 'permissions' entry that build() returns is what the most
\* recent writer of that key left: the specification of a require (only an
\* 'all_of' list) or of a require_any (only an 'any_of' list), never merged
\* with an earlier requirement, or the value of a with_annotation whose key is
\* 'permissions'; there is no such entry when no call wrote it; every other
\* key holds the value of its most recent with_annotation.
C28_LastWriterWins ==
    op = "build" =>
        LET S == CallsWhere(WritesPermissions)
        IN  /\ S = {} <=> "permissions" \notin DOMAIN result.annotations
            /\ S # {} =>
                  LET c == calls[Latest(S)]
                  IN  result.annotations["permissions"] =
                          (IF IsRequirement(c) THEN SpecificationOf(c) ELSE c.value)
            /\ OtherKeysHoldLatestValue

\* a requirement is overwritten by a later one of the other kind, an
\* annotation on another key in between
C28_Witness ==
    /\ op = "build"
    /\ Len(calls) = 3
    /\ calls[1].method = "require" /\ calls[1].permissions = <<"RULE_READ", "POLICY_READ">>
    /\ calls[2].method = "with_annotation" /\ calls[2].key = "rate_limit"
    /\ calls[3].method = "require_any"
    /\ calls[3].permissions = <<"ALERT_READ", "Run Panther AI">>
    /\ result.annotations["permissions"] = [any_of |-> <<"View Alerts", "Run Panther AI">>]
    /\ result.annotations["rate_limit"] = calls[2].value

-----------------------------------------------------------------------------
\* The two time-filter gates on the same queries: validate_sql_time_filter
\* on the text as given, and the check inside execute_data_lake_query on the
\* text that _validate_and_wrap_reserved_words returned.

\* a condition on p_event_time, with blanks or line breaks around it
TimeConditions ==
    {<<"p_event_time", " ", ">", "=", " ", "x">>,
     <<"p_event_time", "\n", "BETWEEN", " ", "x", " ", "AND", " ", "x">>,
     <<"x", " ", "=", " ", "x", "\n", "AND", "\n", "t", ".", "p_event_time", " ", "<", " ", "x">>}

GateProjections ==
    {<<"*">>, <<"x">>, <<"p_event_time">>, <<"Account">>}
    \cup {<<"(">> \o c \o <<")">> : c \in TimeConditions}
    \cup {<<"(", "x", " ", "AND", " ">> \o c \o <<")">> : c \in TimeConditions}

GateWheres ==
    {<<>>,
     <<" ", "WHERE", " ", "x", " ", "=", " ", "p_event_time">>,
     <<" ", "WHERE", " ", "P_OCCURS_SINCE", "(", "x", ")">>}
    \cup {<<" ", "WHERE", " ">> \o c : c \in TimeConditions}
    \cup {<<"\n", "where", "\n">> \o c : c \in TimeConditions}

GateSqls == {Select(p, <<"db", ".", "t">>, w) : p \in GateProjections, w \in GateWheres}

InitGates ==
    /\ sql \in GateSqls
    /\ require_time_filter = FALSE
    /\ read_only = "absent"
    /\ database_name = None
    /\ op = "none"
    /\ tokenizer = "unused"
    /\ result = NoResult
    /\ table_name = None
    /\ ExecIdle
    /\ BuilderIdle
    /\ ConcurrentIdle
    /\ DialectIdle

NextGates ==
    \/ CallValidateSqlTimeFilter
    \/ ExecStart
    \/ ExecCreateClient
    \/ ExecSend
    \/ ExecReceive

SpecGates == InitGates /\ [][NextGates]_vars

\* the inline check of execute_data_lake_query was reached and passed
PassedInlineCheck ==
    /\ op = "execute_data_lake_query"
    /\ ReservedWordsPass(sql)
    /\ ~RejectedForTimeFilter

\* validate_sql_time_filter accepts the text through its WHERE/AND pattern
AcceptedThroughPattern(s) ==
    validate_sql_time_filter(s) = Passed /\ WherePatternSearch(Lower(s))

\* what passes the inline check is accepted by validate_sql_time_filter on
\* the original text
InlineImpliesValidator ==
    PassedInlineCheck => validate_sql_time_filter(sql) = Passed

\* C30: the two time-filter gates agree on the p_event_time pattern: a query
\* that passes the inline check of execute_data_lake_query is accepted by
\* validate_sql_time_filter on the original text, and a query that
\* validate_sql_time_filter accepts through its WHERE/AND p_event_time
\* pattern, and that reaches the inline check, passes it.
C30_GatesAgree ==
    /\ InlineImpliesValidator
    /\ (op = "execute_data_lake_query" /\ ReservedWordsPass(sql)
            /\ AcceptedThroughPattern(sql))
           => ~RejectedForTimeFilter
    /\ (op = "validate_sql_time_filter" /\ result = Passed
            /\ WherePatternSearch(Lower(sql)))
           => \A out \in validate_and_wrap_reserved_words(sql) :
                  out.error = None => InlinePatternSearch(sql_lower(out.sql))

-----------------------------------------------------------------------------
\* Concurrent invocations of the guard: two callers (threads of one process)
\* run validate_sql_comprehensive or _validate_and_wrap_reserved_words, each
\* statement of a function being one step, in any interleaving.  A function
\* keeps its parameters and intermediate results in its own frame; the sets
\* of reserved words are module constants that no statement assigns.

Callers == {"a", "b"}

\* the order in which a for loop visits SCALAR_EXPRESSION_FORBIDDEN and
\* COLUMN_NAME_FORBIDDEN: fixed when the process starts, one of these here
ScalarOrders ==
    << <<"CASE", "CAST", "FALSE", "TRUE", "TRY_CAST", "WHEN">>,
       <<"WHEN", "TRY_CAST", "TRUE", "FALSE", "CAST", "CASE">> >>

ColumnOrders ==
    << <<"CURRENT_USER", "LOCALTIME", "LOCALTIMESTAMP">>,
       <<"LOCALTIMESTAMP", "LOCALTIME", "CURRENT_USER">> >>

\* the first word, in the order of the loop, that the forbidden pattern
\* finds ("" when the loop ends without a match)
FirstForbidden(order, s) ==
    LET hits == {i \in 1..Len(order) : ForbiddenSearch(s, order[i])}
    IN  IF hits = {} THEN ""
        ELSE order[CHOOSE i \in hits : \A j \in hits : i <= j]

ConcurrentSqls ==
    {<<>>,
     <<"SELECT", " ", "Account", " ", "FROM", " ", "t">>,
     <<"SELECT", " ", "true", ",", " ", "case", " ", "FROM", " ", "t">>,
     <<"SELECT", " ", "localtime", ",", " ", "current_user", " ", "FROM", " ", "t">>,
     <<"SELECT", " ", "'", "ORDER", "'", " ", "FROM", " ", "t", " ",
       "WHERE", " ", "p_event_time", " ", ">", " ", "x">>}

\* the calls a caller can make
Invocations ==
    {[fn |-> "validate_sql_comprehensive", sql |-> s, require_time_filter |-> rtf,
      database_name |-> db, parse |-> parse] :
        s \in ConcurrentSqls, rtf \in BOOLEAN,
        db \in {None, <<"panther_logs">>}, parse \in {"ok", "raise"}}
    \cup {[fn |-> "_validate_and_wrap_reserved_words", sql |-> s,
           require_time_filter |-> FALSE, database_name |-> None, parse |-> "ok"] :
            s \in ConcurrentSqls}

NotCalled == [pc |-> "idle"]

InitConcurrent ==
    /\ sql = None
    /\ require_time_filter = FALSE
    /\ read_only = "absent"
    /\ database_name = None
    /\ table_name = None
    /\ op = "none"
    /\ tokenizer = "unused"
    /\ result = NoResult
    /\ ExecIdle
    /\ DialectIdle
    /\ BuilderIdle
    /\ invocations \in [Callers -> Invocations]
    /\ frames = [c \in Callers |-> NotCalled]
    /\ set_order \in 1..Len(ScalarOrders)

Others == <<Args, Builder, Exec, op, tokenizer, result>>

\* the frame of caller c moves to position next with the local values given
Goto(c, next, locals) ==
    /\ frames' = [frames EXCEPT ![c] = locals @@ [pc |-> next] @@ frames[c]]
    /\ UNCHANGED <<invocations, set_order, Others>>

\* the query text kept in one place for all callers: once caller "a" has
\* made its call, every caller reads the text of that call
ParameterSql_Shared(c) ==
    IF frames["a"].pc # "idle" THEN frames["a"].sql ELSE frames[c].sql

\* the parameter sql of the invocation of caller c
ParameterSql(c) == frames[c].sql

\* the call binds the arguments to the parameters of a new frame
Call(c) ==
    /\ frames[c].pc = "idle"
    /\ frames' = [frames EXCEPT ![c] =
           [pc |-> IF invocations[c].fn = "validate_sql_comprehensive"
                   THEN "basic" ELSE "scalar",
            sql |-> invocations[c].sql,
            require_time_filter |-> invocations[c].require_time_filter,
            database_name |-> invocations[c].database_name,
            parse |-> invocations[c].parse]]
    /\ UNCHANGED <<invocations, set_order, Others>>

\* validate_sql_comprehensive: basic_result = validate_sql_basic(sql)
StepBasic(c) ==
    /\ frames[c].pc = "basic"
    /\ LET basic_result == validate_sql_basic(ParameterSql(c), frames[c].parse)
       IN  IF ~basic_result.valid
           THEN Goto(c, "done", [ret |-> basic_result])
           ELSE Goto(c, "time_filter", <<>>)

\* if require_time_filter: time_result = validate_sql_time_filter(sql)
StepTimeFilter(c) ==
    /\ frames[c].pc = "time_filter"
    /\ LET time_result == validate_sql_time_filter(ParameterSql(c))
       IN  IF frames[c].require_time_filter /\ ~time_result.valid
           THEN Goto(c, "done", [ret |-> time_result])
           ELSE Goto(c, "database_name", <<>>)

\* if database_name: db_result = validate_panther_database_name(database_name)
StepDatabaseName(c) ==
    /\ frames[c].pc = "database_name"
    /\ LET db_result == validate_panther_database_name(frames[c].database_name)
       IN  IF Truthy(frames[c].database_name) /\ ~db_result.valid
           THEN Goto(c, "done", [ret |-> db_result])
           ELSE Goto(c, "wrap", <<>>)

\* processed_sql = wrap_reserved_words(sql) and the returned dictionary
StepWrap(c) ==
    /\ frames[c].pc = "wrap"
    /\ Goto(c, "done",
            [ret |-> [valid |-> TRUE, error |-> None,
                      processed_sql |->
                          wrap_reserved_words(ParameterSql(c), frames[c].parse)]])

\* _validate_and_wrap_reserved_words: the loop over SCALAR_EXPRESSION_FORBIDDEN
StepScalarLoop(c) ==
    /\ frames[c].pc = "scalar"
    /\ LET forbidden_word == FirstForbidden(ScalarOrders[set_order], ParameterSql(c))
       IN  IF forbidden_word # ""
           THEN Goto(c, "done", [ret |-> [sql |-> ParameterSql(c),
                                          error |-> ScalarForbiddenMsg(forbidden_word)]])
           ELSE Goto(c, "column", <<>>)

\* the loop over COLUMN_NAME_FORBIDDEN
StepColumnLoop(c) ==
    /\ frames[c].pc = "column"
    /\ LET forbidden_word == FirstForbidden(ColumnOrders[set_order], ParameterSql(c))
       IN  IF forbidden_word # ""
           THEN Goto(c, "done", [ret |-> [sql |-> ParameterSql(c),
                                          error |-> ColumnForbiddenMsg(forbidden_word)]])
           ELSE Goto(c, "quote", <<>>)

\* modified_sql = re.sub(select_clause_pattern, ...) and the returned tuple
StepQuote(c) ==
    /\ frames[c].pc = "quote"
    /\ LET text == ParameterSql(c)
       IN  Goto(c, "done",
                [ret |-> [sql |-> process_select_clause(text, SelectContent(text, 1), 1),
                          error |-> None]])

NextConcurrent ==
    \E c \in Callers :
        \/ Call(c)
        \/ StepBasic(c)
        \/ StepTimeFilter(c)
        \/ StepDatabaseName(c)
        \/ StepWrap(c)
        \/ StepScalarLoop(c)
        \/ StepColumnLoop(c)
        \/ StepQuote(c)

SpecConcurrent == InitConcurrent /\ [][NextConcurrent]_vars

\* what the call i returns when it is the only one running in a process
\* with the set order k
RunAlone(i, k) ==
    IF i.fn = "validate_sql_comprehensive"
    THEN validate_sql_comprehensive(i.sql, i.require_time_filter, "absent",
                                    i.database_name, i.parse)
    ELSE CHOOSE out \in validate_and_wrap_reserved_words(i.sql) :
            \/ out.error = None
            \/ out.error = ScalarForbiddenMsg(FirstForbidden(ScalarOrders[k], i.sql))
            \/ out.error = ColumnForbiddenMsg(FirstForbidden(ColumnOrders[k], i.sql))

\* C27: the guard is stateless: whatever the other caller is doing, and at
\* whatever point of its own call, a finished invocation of
\* validate_sql_comprehensive or _validate_and_wrap_reserved_words has
\* returned exactly what the same call returns when run alone on the same
\* arguments in the same process.
C27_CallsDoNotInterfere ==
    \A c \in Callers :
        frames[c].pc = "done" => frames[c].ret = RunAlone(invocations[c], set_order)

\* both callers have finished, on different queries, one of them rejected
\* and the other one rewritten
C27_Witness ==
    /\ frames["a"].pc = "done" /\ frames["b"].pc = "done"
    /\ invocations["a"].fn = "_validate_and_wrap_reserved_words"
    /\ invocations["a"].sql = <<"SELECT", " ", "true", ",", " ", "case", " ", "FROM", " ", "t">>
    /\ frames["a"].ret.error # None
    /\ invocations["b"].fn = "validate_sql_comprehensive"
    /\ invocations["b"].parse = "ok"
    /\ frames["b"].ret.valid
    /\ frames["b"].ret.processed_sql # invocations["b"].sql

====
